---- MODULE Spec2Model ----
(***************************************************************************)
(* Navigation builder of src/utils/navigation.ts: category extraction,     *)
(* title formatting, categorisation into sections, sibling sorting, the    *)
(* expansion projection, front-matter reading and the directory scan.      *)
(* JavaScript strings are TLA+ strings (Len, SubSeq and \o act on them     *)
(* character by character); an absent optional field (order, children)    *)
(* is the empty sequence, a present order is a Number, <<n>> for an        *)
(* integer n < 10^9.                                                       *)
(***************************************************************************)
EXTENDS Integers, Sequences, FiniteSets, TLC

VARIABLES
    pc,         \* what the last step was: "built" when a build returned
    str,        \* toSmartTitleCase / extractCategoryFromPath: the argument
    extracted,  \* extractCategoryFromPath's returned {category, cleanName}
    titled,     \* toSmartTitleCase(str)
    retitled,   \* toSmartTitleCase(titled)
    items,      \* categorizeNavigationItems / sortNavigationItems: the array
    categories, \* categorizeNavigationItems: the seven per-key arrays
    sections,   \* categorizeNavigationItems: the returned sections
    input,      \* the array as it was handed to the call (for comparison)
    sortedOnce, \* sortNavigationItems: the array after the first call
    hasWindow,  \* typeof window !== "undefined"
    fs,         \* the content tree under src/app
    fallbackNav,\* the static navigation exported by ./fallback
    nav,        \* what buildNavigationFromFileSystem returned
    errorLog,   \* the directories console.error was called for
    fsOps,      \* the file-system calls made so far, build by build
    fileText,   \* readMDXMetadata: what reading the file gives
    parsed,     \* readMDXMetadata: the returned object
    builds,     \* the buildNavigationFromFileSystem calls made
    heap,       \* the arrays the calls have made, by address
    currentPath,\* setExpandedState / getClientSideNavigation: the location
    expanded    \* what setExpandedState / getClientSideNavigation returned

buildVars ==
    <<hasWindow, fs, fallbackNav, nav, errorLog, fsOps, fileText, parsed,
      builds, heap>>

expandVars == <<currentPath, expanded>>

vars ==
    <<pc, str, extracted, titled, retitled, items, categories, sections,
      input, sortedOnce, buildVars, expandVars>>

----------------------------------------------------------------------------
(* String primitives of the JavaScript runtime.  The text of the model is  *)
(* of the characters U+0001..U+00FF, the Greek letter mu in its two cases  *)
(* (U+039C, U+03BC: the capital of the micro sign U+00B5 is U+039C), and   *)
(* the spaces U+1680 and U+FEFF.                                           *)

\* toLowerCase, letter by letter: A..Z, the capitals of U+00C0..U+00DE
\* (U+00D7 is the multiplication sign) and capital mu
UpperToLower ==
    ("A" :> "a") @@ ("B" :> "b") @@ ("C" :> "c") @@ ("D" :> "d") @@
    ("E" :> "e") @@ ("F" :> "f") @@ ("G" :> "g") @@ ("H" :> "h") @@
    ("I" :> "i") @@ ("J" :> "j") @@ ("K" :> "k") @@ ("L" :> "l") @@
    ("M" :> "m") @@ ("N" :> "n") @@ ("O" :> "o") @@ ("P" :> "p") @@
    ("Q" :> "q") @@ ("R" :> "r") @@ ("S" :> "s") @@ ("T" :> "t") @@
    ("U" :> "u") @@ ("V" :> "v") @@ ("W" :> "w") @@ ("X" :> "x") @@
    ("Y" :> "y") @@ ("Z" :> "z") @@ ("À" :> "à") @@ ("Á" :> "á") @@
    ("Â" :> "â") @@ ("Ã" :> "ã") @@ ("Ä" :> "ä") @@ ("Å" :> "å") @@
    ("Æ" :> "æ") @@ ("Ç" :> "ç") @@ ("È" :> "è") @@ ("É" :> "é") @@
    ("Ê" :> "ê") @@ ("Ë" :> "ë") @@ ("Ì" :> "ì") @@ ("Í" :> "í") @@
    ("Î" :> "î") @@ ("Ï" :> "ï") @@ ("Ð" :> "ð") @@ ("Ñ" :> "ñ") @@
    ("Ò" :> "ò") @@ ("Ó" :> "ó") @@ ("Ô" :> "ô") @@ ("Õ" :> "õ") @@
    ("Ö" :> "ö") @@ ("Ø" :> "ø") @@ ("Ù" :> "ù") @@ ("Ú" :> "ú") @@
    ("Û" :> "û") @@ ("Ü" :> "ü") @@ ("Ý" :> "ý") @@ ("Þ" :> "þ") @@
    ("Μ" :> "μ")

\* toUpperCase, letter by letter: a..z, the small letters of U+00E0..U+00FE
\* (U+00F7 is the division sign), the sharp s, whose capital is two
\* letters, the micro sign and small mu.  The capital of U+00FF is U+0178,
\* which no string of a module can hold: toUpperCase has no value on it.
LowerToUpper ==
    ("a" :> "A") @@ ("b" :> "B") @@ ("c" :> "C") @@ ("d" :> "D") @@
    ("e" :> "E") @@ ("f" :> "F") @@ ("g" :> "G") @@ ("h" :> "H") @@
    ("i" :> "I") @@ ("j" :> "J") @@ ("k" :> "K") @@ ("l" :> "L") @@
    ("m" :> "M") @@ ("n" :> "N") @@ ("o" :> "O") @@ ("p" :> "P") @@
    ("q" :> "Q") @@ ("r" :> "R") @@ ("s" :> "S") @@ ("t" :> "T") @@
    ("u" :> "U") @@ ("v" :> "V") @@ ("w" :> "W") @@ ("x" :> "X") @@
    ("y" :> "Y") @@ ("z" :> "Z") @@ ("à" :> "À") @@ ("á" :> "Á") @@
    ("â" :> "Â") @@ ("ã" :> "Ã") @@ ("ä" :> "Ä") @@ ("å" :> "Å") @@
    ("æ" :> "Æ") @@ ("ç" :> "Ç") @@ ("è" :> "È") @@ ("é" :> "É") @@
    ("ê" :> "Ê") @@ ("ë" :> "Ë") @@ ("ì" :> "Ì") @@ ("í" :> "Í") @@
    ("î" :> "Î") @@ ("ï" :> "Ï") @@ ("ð" :> "Ð") @@ ("ñ" :> "Ñ") @@
    ("ò" :> "Ò") @@ ("ó" :> "Ó") @@ ("ô" :> "Ô") @@ ("õ" :> "Õ") @@
    ("ö" :> "Ö") @@ ("ø" :> "Ø") @@ ("ù" :> "Ù") @@ ("ú" :> "Ú") @@
    ("û" :> "Û") @@ ("ü" :> "Ü") @@ ("ý" :> "Ý") @@ ("þ" :> "Þ") @@
    ("ß" :> "SS") @@ ("µ" :> "Μ") @@ ("μ" :> "Μ")

\* s.charAt(i), 0-based as in JavaScript; "" when i is out of range
charAt(s, i) ==
    IF i >= 0 /\ i < Len(s) THEN SubSeq(s, i + 1, i + 1) ELSE ""

\* s.slice(i): the text from 0-based index i to the end
slice(s, i) ==
    IF i >= Len(s) THEN "" ELSE SubSeq(s, i + 1, Len(s))

RECURSIVE toLowerCase(_)
toLowerCase(s) ==
    IF Len(s) = 0 THEN ""
    ELSE LET c == charAt(s, 0)
         IN  (IF c \in DOMAIN UpperToLower THEN UpperToLower[c] ELSE c)
                 \o toLowerCase(slice(s, 1))

RECURSIVE toUpperCase(_)
toUpperCase(s) ==
    IF Len(s) = 0 THEN ""
    ELSE LET c == charAt(s, 0)
         IN  (IF c \in DOMAIN LowerToUpper \/ c = "ÿ" THEN LowerToUpper[c]
              ELSE c)
                 \o toUpperCase(slice(s, 1))

\* s.startsWith(p)
startsWith(s, p) ==
    Len(p) <= Len(s) /\ SubSeq(s, 1, Len(p)) = p

\* s.includes(sub)
includes(s, sub) ==
    \E i \in 0..(Len(s) - Len(sub)) : SubSeq(s, i + 1, i + Len(sub)) = sub

\* s.indexOf(c) for a one-character c, 0-based; -1 when absent
indexOf(s, c) ==
    IF \E i \in 1..Len(s) : SubSeq(s, i, i) = c
    THEN (CHOOSE i \in 1..Len(s) :
              /\ SubSeq(s, i, i) = c
              /\ \A j \in 1..(i - 1) : SubSeq(s, j, j) # c) - 1
    ELSE 0 - 1

\* s.split(sep) for a one-character sep: "".split("-") is [""]
RECURSIVE split(_, _)
split(s, sep) ==
    LET i == indexOf(s, sep)
    IN  IF i < 0 THEN <<s>>
        ELSE <<SubSeq(s, 1, i)>> \o split(slice(s, i + 1), sep)

\* parts.join(sep): [].join is ""
RECURSIVE join(_, _)
join(parts, sep) ==
    IF Len(parts) = 0 THEN ""
    ELSE IF Len(parts) = 1 THEN parts[1]
    ELSE parts[1] \o sep \o join(Tail(parts), sep)

\* parts.filter((segment) => segment.length > 0)
RECURSIVE nonEmptySegments(_)
nonEmptySegments(parts) ==
    IF Len(parts) = 0 THEN <<>>
    ELSE (IF Len(parts[1]) > 0 THEN <<parts[1]>> ELSE <<>>)
             \o nonEmptySegments(Tail(parts))

----------------------------------------------------------------------------
(* Numbers.  A Number of the program is a double; the ones met here are    *)
(* the non-negative integers and Infinity.  An integer is the sequence of  *)
(* its digits in base 10^9, the most significant first (<<n>> for          *)
(* n < 10^9), so that a value beyond the integers of the checker can be    *)
(* held.                                                                   *)

\* const v = x; F(v): F applied to the value of x.
Bind(x, F(_)) == CHOOSE r \in { F(v) : v \in {x} } : TRUE

\* \d of a regular expression
Digits ==
    ("0" :> 0) @@ ("1" :> 1) @@ ("2" :> 2) @@ ("3" :> 3) @@ ("4" :> 4) @@
    ("5" :> 5) @@ ("6" :> 6) @@ ("7" :> 7) @@ ("8" :> 8) @@ ("9" :> 9)

isDigit(c) == c \in DOMAIN Digits

Limb == 10 ^ 9

\* Number.POSITIVE_INFINITY: the one Number here that is no integer
Infinity == <<Limb>>

\* the digits without their leading zeros
RECURSIVE stripZeros(_)
stripZeros(n) ==
    IF Len(n) > 1 /\ n[1] = 0 THEN stripZeros(Tail(n)) ELSE n

\* a < b, for integers
less(a, b) ==
    \/ Len(a) < Len(b)
    \/ /\ Len(a) = Len(b)
       /\ \E i \in 1..Len(a) :
             /\ a[i] < b[i]
             /\ \A j \in 1..(i - 1) : a[j] = b[j]

\* n div 2^k for k <= 9: 10^9 is a multiple of 2^k, so the remainder a
\* digit hands down is the digit's own
divTwoTo(n, k) ==
    stripZeros(SubSeq([i \in 1..Len(n) |->
        (IF i > 1 THEN (n[i - 1] % (2 ^ k)) * (Limb \div (2 ^ k)) ELSE 0)
            + (n[i] \div (2 ^ k))], 1, Len(n)))

\* n mod 2^k for k <= 9
modTwoTo(n, k) == n[Len(n)] % (2 ^ k)

\* n * 2^k for k <= 9: what a digit hands up is the digit's own
timesTwoTo(n, k) ==
    stripZeros(SubSeq([i \in 1..(Len(n) + 1) |->
        (IF i > 1 THEN (n[i - 1] % (Limb \div (2 ^ k))) * (2 ^ k) ELSE 0)
            + (IF i <= Len(n) THEN n[i] \div (Limb \div (2 ^ k)) ELSE 0)],
        1, Len(n) + 1))

\* n + 1
RECURSIVE increment(_)
increment(n) ==
    IF Len(n) = 0 THEN <<1>>
    ELSE IF n[Len(n)] + 1 < Limb
    THEN SubSeq(n, 1, Len(n) - 1) \o <<n[Len(n)] + 1>>
    ELSE increment(SubSeq(n, 1, Len(n) - 1)) \o <<0>>

\* 2^53: up to it every integer is a double
TwoTo53 == <<9007199, 254740992>>

\* m * 2^(9j)
RECURSIVE timesTwoTo9s(_, _)
timesTwoTo9s(m, j) ==
    IF j = 0 THEN m
    ELSE Bind(timesTwoTo(m, 9), LAMBDA product : timesTwoTo9s(product, j - 1))

\* n div 2^(9j)
RECURSIVE divTwoTo9s(_, _)
divTwoTo9s(n, j) ==
    IF j = 0 THEN n
    ELSE Bind(divTwoTo(n, 9), LAMBDA quotient : divTwoTo9s(quotient, j - 1))

\* m * 2^e
RECURSIVE scaled(_, _)
scaled(m, e) ==
    IF e >= 72
    THEN Bind(timesTwoTo9s(m, 8), LAMBDA product : scaled(product, e - 72))
    ELSE Bind(timesTwoTo9s(m, e \div 9),
              LAMBDA product : timesTwoTo(product, e % 9))

\* n div 2^k for k <= 72
shifted(n, k) ==
    Bind(divTwoTo9s(n, k \div 9), LAMBDA quotient : divTwoTo(quotient, k % 9))

\* The double nearest to the integer n * 2^e, ties to the even
\* significand, as its significand m (up to 2^53) and exponent: the
\* double is m * 2^e.  n is divided by two until it is below 2^53; half
\* is the bit divided away last and rest tells that a bit divided away
\* before it was set.  The significand is then rounded.  Several
\* divisions are made at once (step) while that leaves n at 2^53 or more:
\* 72 of them from 10^45 on, 6 from 10^18 on.
RECURSIVE nearestDouble(_, _, _, _)
nearestDouble(n, e, half, rest) ==
    LET step == IF Len(n) >= 6 THEN 72 ELSE IF Len(n) >= 3 THEN 6 ELSE 1
    IN  IF ~less(n, TwoTo53)
        THEN Bind(<<shifted(n, step), shifted(n, step - 1)>>,
                  LAMBDA q : nearestDouble(q[1], e + step,
                                 modTwoTo(q[2], 1) = 1,
                                 rest \/ half \/ scaled(q[2], step - 1) # n))
        ELSE IF half /\ (rest \/ modTwoTo(n, 1) = 1)
        THEN [m |-> increment(n), e |-> e]
        ELSE [m |-> n, e |-> e]

\* the integer a run of decimal digits writes, nine digits to a digit of
\* base 10^9
RECURSIVE integerOf(_)
integerOf(ds) ==
    LET RECURSIVE limbOf(_)
        limbOf(run) ==
            IF Len(run) = 0 THEN 0
            ELSE 10 * limbOf(SubSeq(run, 1, Len(run) - 1))
                    + Digits[SubSeq(run, Len(run), Len(run))]
    IN  IF Len(ds) <= 9 THEN <<limbOf(ds)>>
        ELSE integerOf(SubSeq(ds, 1, Len(ds) - 9))
                \o <<limbOf(SubSeq(ds, Len(ds) - 8, Len(ds)))>>

\* parseInt of a run of decimal digits: the Number nearest to the integer
\* the digits write.  An integer of more than 35 digits of base 10^9 is
\* beyond 2^1024, hence Infinity, and so is a double beyond the largest
\* one, (2^53 - 1) * 2^971.
parseInt(ds) ==
    Bind(stripZeros(integerOf(ds)),
         LAMBDA n :
             IF Len(n) > 35 THEN Infinity
             ELSE Bind(nearestDouble(n, 0, FALSE, FALSE),
                       LAMBDA double :
                           IF \/ double.e > 971
                              \/ double.e = 971 /\ double.m = TwoTo53
                           THEN Infinity
                           ELSE scaled(double.m, double.e)))

\* a - b for two Numbers that are integers or Infinity: the difference
\* when both are below 10^9, else its sign, which is all that a sort reads
\* of it (Infinity - Infinity is NaN, which a sort reads as 0)
minus(a, b) ==
    IF Len(a) = 1 /\ Len(b) = 1 /\ a # Infinity /\ b # Infinity
    THEN a[1] - b[1]
    ELSE IF a = b THEN 0
    ELSE IF b = Infinity THEN 0 - 1
    ELSE IF a = Infinity THEN 1
    ELSE IF less(a, b) THEN 0 - 1
    ELSE 1

----------------------------------------------------------------------------
(* extractCategoryFromPath and toSmartTitleCase                            *)

Null == "null"

CATEGORY_PREFIXES ==
    <<"sql", "nosql", "fund", "adv", "util", "db", "api", "sec", "perf",
      "dep", "proj">>

\* CATEGORY_PREFIXES.includes(x)
IsCategoryPrefix(x) ==
    \E i \in 1..Len(CATEGORY_PREFIXES) : CATEGORY_PREFIXES[i] = x

\* A plausible slip: the prefix test compares the first part as written,
\* without lower-casing it.
extractCategoryFromPath_CaseSensitive(pathName) ==
    LET parts == split(pathName, "-")
    IN  IF Len(parts) > 1 /\ IsCategoryPrefix(parts[1])
        THEN [category |-> parts[1], cleanName |-> join(Tail(parts), "-")]
        ELSE [category |-> Null, cleanName |-> pathName]

extractCategoryFromPath(pathName) ==
    LET parts == split(pathName, "-")
        firstPart == toLowerCase(parts[1])
    IN  IF Len(parts) > 1 /\ IsCategoryPrefix(firstPart)
        THEN [category |-> firstPart, cleanName |-> join(Tail(parts), "-")]
        ELSE [category |-> Null, cleanName |-> pathName]

minorWords ==
    {"a", "an", "and", "the", "but", "or", "nor", "as", "at", "by", "with",
     "for", "in", "of", "on", "per", "to", "via", "vs", "v", "vs.", "v."}

\* word.charAt(0).toUpperCase() + word.slice(1)
capitalize(word) ==
    toUpperCase(charAt(word, 0)) \o slice(word, 1)

\* word.split("-").map(capitalize).join("-"), the hyphenated-word branch
capitalizeParts(word) ==
    LET parts == split(word, "-")
    IN  join([i \in 1..Len(parts) |-> capitalize(parts[i])], "-")

\* A plausible slip: the minor-word test comes before the first/last test,
\* so a minor word in first or last position stays in lower case.
titleWord_MinorFirst(word, index, array) ==
    IF word \in minorWords THEN word ELSE capitalize(word)

\* The callback of cleanName.split("-").map(...): index is 1-based here.
titleWord(word, index, array) ==
    IF index = 1 THEN capitalize(word)
    ELSE IF index = Len(array) THEN capitalize(word)
    ELSE IF includes(word, "-") THEN capitalizeParts(word)
    ELSE IF word \in minorWords THEN word
    ELSE capitalize(word)

\* A plausible slip: the "user" exclusion is missing from the "use" test.
toSmartTitleCase_NoUserCheck(s) ==
    LET cleanName == extractCategoryFromPath(s).cleanName
        words == split(cleanName, "-")
    IN  IF startsWith(cleanName, "use")
        THEN cleanName
        ELSE IF cleanName = "jQuery" THEN "jQuery"
        ELSE join([i \in 1..Len(words) |-> titleWord(words[i], i, words)], " ")

toSmartTitleCase(s) ==
    LET cleanName == extractCategoryFromPath(s).cleanName
        words == split(cleanName, "-")
    IN  IF startsWith(cleanName, "use") /\ ~startsWith(cleanName, "user")
        THEN cleanName
        ELSE IF cleanName = "jQuery" THEN "jQuery"
        ELSE join([i \in 1..Len(words) |-> titleWord(words[i], i, words)], " ")

----------------------------------------------------------------------------
(* categorizeNavigationItems                                               *)

\* A NavigationItem; children and order are <<>> when absent.
NavigationItem(title, href, children, order) ==
    [title |-> title, href |-> href, children |-> children, order |-> order]

\* keys.some((k) => s.includes(k))
includesAny(s, keys) == \E k \in keys : includes(s, k)

\* The switch of categorizeItem: the section key of a category code.
sectionOfCategory(category) ==
    CASE category = "sql" -> "sql"
      [] category = "nosql" -> "nosql"
      [] category = "db" -> "databases"
      [] category = "api" -> "databases"
      [] category = "fund" -> "fundamentals"
      [] category = "proj" -> "projects"
      [] category = "adv" -> "advanced"
      [] category = "sec" -> "advanced"
      [] category = "perf" -> "advanced"
      [] category = "dep" -> "advanced"
      [] category = "util" -> "utilities"

\* The for loop over pathSegments: the section of the first segment that
\* carries a category code, Null when no segment carries one.
RECURSIVE categoryOfSegments(_)
categoryOfSegments(pathSegments) ==
    IF Len(pathSegments) = 0 THEN Null
    ELSE LET category == extractCategoryFromPath(pathSegments[1]).category
         IN  IF category # Null THEN sectionOfCategory(category)
             ELSE categoryOfSegments(Tail(pathSegments))

\* A plausible slip: the NoSQL stores are tested before the SQL ones.
categoryOfSubtree_NoSqlFirst(path, title) ==
    IF \/ includesAny(path, {"docker", "kubernetes", "deployment-strategies"})
       \/ includesAny(title, {"docker", "kubernetes", "deployment"})
    THEN "advanced"
    ELSE IF \/ includesAny(path, {"mongodb", "redis", "nosql", "cassandra",
                                  "dynamodb"})
            \/ includesAny(title, {"mongodb", "redis", "nosql", "cassandra",
                                   "dynamodb"})
    THEN "nosql"
    ELSE IF \/ includesAny(path, {"mysql", "postgresql", "sqlite", "sql"})
            \/ includesAny(title, {"mysql", "postgresql", "sqlite", "sql"})
    THEN "sql"
    ELSE IF \/ includesAny(path, {"database", "environment-setup", "managers",
                                  "version", "transaction-models", "data",
                                  "graphql"})
            \/ includesAny(title, {"database", "databases", "managers",
                                   "environment", "version", "transaction",
                                   "data", "graphql"})
    THEN "databases"
    ELSE Null

\* The keyword rules for an item with children (lines 223-288); Null when
\* none of them matches and control falls through to the page rules.
categoryOfSubtree(path, title) ==
    IF \/ includesAny(path, {"docker", "kubernetes", "deployment-strategies"})
       \/ includesAny(title, {"docker", "kubernetes", "deployment"})
    THEN "advanced"
    ELSE IF \/ includesAny(path, {"mysql", "postgresql", "sqlite", "sql"})
            \/ includesAny(title, {"mysql", "postgresql", "sqlite", "sql"})
    THEN "sql"
    ELSE IF \/ includesAny(path, {"mongodb", "redis", "nosql", "cassandra",
                                  "dynamodb"})
            \/ includesAny(title, {"mongodb", "redis", "nosql", "cassandra",
                                   "dynamodb"})
    THEN "nosql"
    ELSE IF \/ includesAny(path, {"database", "environment-setup", "managers",
                                  "version", "transaction-models", "data",
                                  "graphql"})
            \/ includesAny(title, {"database", "databases", "managers",
                                   "environment", "version", "transaction",
                                   "data", "graphql"})
    THEN "databases"
    ELSE Null

\* A plausible slip: what no rule claims is filed under utilities.
categoryOfPage_DefaultUtilities(path, title) ==
    IF \/ includesAny(path, {"package-managers", "version-control",
                             "foundation"})
       \/ (includes(path, "setup") /\ ~includes(path, "environment-setup"))
       \/ includesAny(path, {"back-end", "vocabulary", "abbreviations"})
    THEN "fundamentals"
    ELSE IF \/ includesAny(path, {"mysql", "postgresql", "sqlite", "sql"})
            \/ includesAny(title, {"mysql", "postgresql", "sqlite", "sql"})
    THEN "sql"
    ELSE IF \/ includesAny(path, {"mongodb", "redis", "nosql", "cassandra",
                                  "dynamodb"})
            \/ includesAny(title, {"mongodb", "redis", "nosql", "cassandra",
                                   "dynamodb"})
    THEN "nosql"
    ELSE IF \/ includesAny(path, {"docker", "kubernetes", "advanced",
                                  "principles", "quality-security-performance",
                                  "deployment-strategies"})
            \/ includesAny(title, {"docker", "principles", "advanced",
                                   "security", "kubernetes", "deployment"})
    THEN "advanced"
    ELSE IF \/ includesAny(path, {"seo-accessibility", "introduction-to-html",
                                  "environment-setup",
                                  "introduction-to-javascript",
                                  "document-object-model", "forms", "jquery",
                                  "documentation-and-learning-platforms"})
            \/ includesAny(title, {"html", "css", "javascript", "seo",
                                   "environment", "dom", "forms", "jquery",
                                   "documentation", "learning platforms"})
    THEN "databases"
    ELSE IF \/ includesAny(path, {"utilities-tools", "resources-utilities",
                                  "helper-functions", "development-tools",
                                  "utility-libraries"})
            \/ includesAny(title, {"utilities", "utility", "helper", "tools",
                                   "platforms"})
    THEN "utilities"
    ELSE "utilities"

\* The keyword rules for individual pages (lines 291-376).
categoryOfPage(path, title) ==
    IF \/ includesAny(path, {"package-managers", "version-control",
                             "foundation"})
       \/ (includes(path, "setup") /\ ~includes(path, "environment-setup"))
       \/ includesAny(path, {"back-end", "vocabulary", "abbreviations"})
    THEN "fundamentals"
    ELSE IF \/ includesAny(path, {"mysql", "postgresql", "sqlite", "sql"})
            \/ includesAny(title, {"mysql", "postgresql", "sqlite", "sql"})
    THEN "sql"
    ELSE IF \/ includesAny(path, {"mongodb", "redis", "nosql", "cassandra",
                                  "dynamodb"})
            \/ includesAny(title, {"mongodb", "redis", "nosql", "cassandra",
                                   "dynamodb"})
    THEN "nosql"
    ELSE IF \/ includesAny(path, {"docker", "kubernetes", "advanced",
                                  "principles", "quality-security-performance",
                                  "deployment-strategies"})
            \/ includesAny(title, {"docker", "principles", "advanced",
                                   "security", "kubernetes", "deployment"})
    THEN "advanced"
    ELSE IF \/ includesAny(path, {"seo-accessibility", "introduction-to-html",
                                  "environment-setup",
                                  "introduction-to-javascript",
                                  "document-object-model", "forms", "jquery",
                                  "documentation-and-learning-platforms"})
            \/ includesAny(title, {"html", "css", "javascript", "seo",
                                   "environment", "dom", "forms", "jquery",
                                   "documentation", "learning platforms"})
    THEN "databases"
    ELSE IF \/ includesAny(path, {"utilities-tools", "resources-utilities",
                                  "helper-functions", "development-tools",
                                  "utility-libraries"})
            \/ includesAny(title, {"utilities", "utility", "helper", "tools",
                                   "platforms"})
    THEN "utilities"
    ELSE "fundamentals"

\* A plausible slip (the precedence of an earlier iteration of this code):
\* the keyword rules are tried before the category codes of the href.
categorizeItem_KeywordsFirst(item) ==
    LET path == toLowerCase(item.href)
        title == toLowerCase(item.title)
        byKeyword == IF Len(item.children) > 0
                        /\ categoryOfSubtree(path, title) # Null
                     THEN categoryOfSubtree(path, title)
                     ELSE categoryOfPage(path, title)
        byCode == categoryOfSegments(nonEmptySegments(split(path, "/")))
    IN  IF byKeyword # "fundamentals" \/ byCode = Null THEN byKeyword
        ELSE byCode

categorizeItem(item) ==
    LET path == toLowerCase(item.href)
        title == toLowerCase(item.title)
        byCode == categoryOfSegments(nonEmptySegments(split(path, "/")))
    IN  IF byCode # Null THEN byCode
        ELSE IF Len(item.children) > 0
                /\ categoryOfSubtree(path, title) # Null
        THEN categoryOfSubtree(path, title)
        ELSE categoryOfPage(path, title)

\* const categories = { fundamentals: [], sql: [], ... }
emptyCategories ==
    [fundamentals |-> <<>>, sql |-> <<>>, nosql |-> <<>>, databases |-> <<>>,
     projects |-> <<>>, utilities |-> <<>>, advanced |-> <<>>]

\* A plausible slip: unshift instead of push.
pushItem_Unshift(cats, item) ==
    [cats EXCEPT ![categorizeItem(item)] = <<item>> \o @]

\* categories[categorizeItem(item)].push(item)
pushItem(cats, item) ==
    [cats EXCEPT ![categorizeItem(item)] = Append(@, item)]

\* items.forEach(...), starting from the arrays in cats
RECURSIVE forEachPush(_, _)
forEachPush(cats, its) ==
    IF Len(its) = 0 THEN cats
    ELSE forEachPush(pushItem(cats, Head(its)), Tail(its))

\* A plausible slip: the length test is missing, so an empty section is
\* pushed too.
sectionIfAny_NoLengthTest(title, its) ==
    <<[title |-> title, items |-> its]>>

\* if (its.length > 0) sections.push({ title, items: its })
sectionIfAny(title, its) ==
    IF Len(its) > 0 THEN <<[title |-> title, items |-> its]>> ELSE <<>>

\* A plausible slip: the databases block is placed before the sql block.
buildSections_DatabasesFirst(cats) ==
    sectionIfAny("Fundamentals", cats.fundamentals)
        \o sectionIfAny("Databases", cats.databases)
        \o sectionIfAny("SQL", cats.sql)
        \o sectionIfAny("NoSQL", cats.nosql)
        \o sectionIfAny("Projects", cats.projects)
        \o sectionIfAny("Utilities & Tools", cats.utilities)
        \o sectionIfAny("Advanced Topics", cats.advanced)

\* A plausible slip: the projects block is missing.
buildSections_NoProjects(cats) ==
    sectionIfAny("Fundamentals", cats.fundamentals)
        \o sectionIfAny("SQL", cats.sql)
        \o sectionIfAny("NoSQL", cats.nosql)
        \o sectionIfAny("Databases", cats.databases)
        \o sectionIfAny("Utilities & Tools", cats.utilities)
        \o sectionIfAny("Advanced Topics", cats.advanced)

\* Lines 385-436: the sections in the order the code pushes them.
buildSections(cats) ==
    sectionIfAny("Fundamentals", cats.fundamentals)
        \o sectionIfAny("SQL", cats.sql)
        \o sectionIfAny("NoSQL", cats.nosql)
        \o sectionIfAny("Databases", cats.databases)
        \o sectionIfAny("Projects", cats.projects)
        \o sectionIfAny("Utilities & Tools", cats.utilities)
        \o sectionIfAny("Advanced Topics", cats.advanced)

----------------------------------------------------------------------------
(* getPriority and sortNavigationItems                                     *)

getPriority(title) ==
    LET normalizedTitle == toLowerCase(title)
    IN  IF includesAny(normalizedTitle,
                       {"abbreviations", "vocabulary", "acronyms"})
        THEN 1
        ELSE IF includesAny(normalizedTitle,
                            {"setting up", "set up", "selection", "starter",
                             "fundamentals", "setup"})
        THEN 2
        ELSE IF includesAny(normalizedTitle,
                            {"getting started", "project structure"})
        THEN 3
        ELSE IF includesAny(normalizedTitle,
                            {"introduction", "foundation", "intro"})
        THEN 4
        ELSE IF includesAny(normalizedTitle, {"security", "performance"})
        THEN 999
        ELSE IF includesAny(normalizedTitle,
                            {"bonus", "libraries", "optional", "frameworks"})
        THEN 9999
        ELSE 99

\* U+0060, which a string of a module holds only before an apostrophe
GraveAccent == SubSeq("`'", 1, 1)

\* The collation of the default locale.  The characters with a primary
\* weight of their own, in the order of the weights: the white-space
\* controls (tab, line feed, vertical tab, form feed, carriage return,
\* next line U+0085) and the space, then punctuation, symbols and currency
\* signs, then digits, then letters, thorn after z and mu after thorn.  The
\* two cases of a letter have the same primary weight.
CollationOrder ==
    "\t\n\f\r _-,;:!¡?¿.·'\"«»()[]{}§¶@*/\\&#%" \o GraveAccent
        \o "´^¯¨¸°©®+±÷×<=>¬|¦~¤¢$£¥"
        \o "0123456789abcdefghijklmnopqrstuvwxyzþμ"

\* The characters the collation gives no weight at all: the controls
\* U+0001..U+0008, U+000E..U+001F and U+007F..U+009F other than U+0085,
\* the soft hyphen U+00AD and U+FEFF.  A comparison passes over them.
Ignorable ==
    LET chars == "­﻿"
    IN  { SubSeq(chars, i, i) : i \in 1..Len(chars) }

isIgnorable(c) == c \in Ignorable

\* The primary weight of each character of CollationOrder; the even
\* numbers, so that the fraction slash of U+00BC..U+00BE, which no string
\* of a module can hold, has its weight between those of "~" and U+00A4.
primaryWeight ==
    [c \in { SubSeq(CollationOrder, i, i) : i \in 1..Len(CollationOrder) } |->
        2 * (CHOOSE i \in 1..Len(CollationOrder) :
                 SubSeq(CollationOrder, i, i) = c)]

\* The accented letters of U+00E0..U+00FF and the letters under them, the
\* accents in the order of their secondary weights: acute, grave,
\* circumflex, ring, diaeresis, tilde, stroke, cedilla.
Accents ==
    << <<"áéíóúý", "aeiouy">>, <<"àèìòù", "aeiou">>, <<"âêîôû", "aeiou">>,
       <<"å", "a">>, <<"äëïöüÿ", "aeiouy">>, <<"ãñõ", "ano">>,
       <<"ø", "o">>, <<"ç", "c">> >>

\* The collation elements of one character, each <<primary, secondary,
\* tertiary>> with 0 for no weight at a level.
\*   secondary: 1 plain; 2 the variant letters ae, eth and sharp s; 3..10
\*     the accents of Accents; 11 the middle dot of an l with middle dot;
\*   tertiary: 1 plain; 2 the micro sign; 3 the second letter of a small
\*     ligature; 4 the space U+1680; 5 upper case; 6 the second letter of
\*     a capital ligature; 7 superscript; 8 no-break; 9 ordinal indicator;
\*     10 the digits of a fraction.
collationElements(c) ==
    LET l == toLowerCase(c)
        case == IF l # c THEN 5 ELSE 1
        accent == { k \in DOMAIN Accents : indexOf(Accents[k][1], l) >= 0 }
        digitOf(chars, digits) ==
            primaryWeight[charAt(digits, indexOf(chars, c))]
    IN  IF isIgnorable(c) THEN <<>>
        ELSE IF accent # {}
        THEN LET k == CHOOSE k \in accent : TRUE
             IN  << <<primaryWeight[charAt(Accents[k][2],
                                           indexOf(Accents[k][1], l))],
                      1, case>>,
                    <<0, k + 2, 1>> >>
        ELSE IF l = "æ"
        THEN << <<primaryWeight["a"], 2, case>>,
                <<primaryWeight["e"], 1, IF l # c THEN 6 ELSE 3>> >>
        ELSE IF c = "ß"
        THEN << <<primaryWeight["s"], 2, 1>>, <<primaryWeight["s"], 1, 3>> >>
        ELSE IF l = "ð" THEN << <<primaryWeight["d"], 2, case>> >>
        ELSE IF c = "µ" THEN << <<primaryWeight["μ"], 1, 2>> >>
        ELSE IF c = "ª" THEN << <<primaryWeight["a"], 1, 9>> >>
        ELSE IF c = "º" THEN << <<primaryWeight["o"], 1, 9>> >>
        ELSE IF indexOf("¹²³", c) >= 0
        THEN << <<digitOf("¹²³", "123"), 1, 7>> >>
        ELSE IF indexOf("¼½¾", c) >= 0
        THEN << <<digitOf("¼½¾", "113"), 1, 10>>,
                <<primaryWeight["~"] + 1, 1, 5>>,
                <<digitOf("¼½¾", "424"), 1, 10>> >>
        ELSE IF c = " " THEN << <<primaryWeight[" "], 1, 8>> >>
        ELSE IF c = " " THEN << <<primaryWeight[" "], 1, 4>> >>
        ELSE << <<primaryWeight[l], 1, case>> >>

\* The collation elements of a text: those of its characters, an l before a
\* middle dot U+00B7 taken together with it (an l with an accent of its
\* own).
RECURSIVE collationElementsOf(_)
collationElementsOf(s) ==
    IF Len(s) = 0 THEN <<>>
    ELSE IF charAt(s, 0) \in {"l", "L"} /\ charAt(s, 1) = "·"
    THEN collationElements(charAt(s, 0)) \o << <<0, 11, 1>> >>
             \o collationElementsOf(slice(s, 2))
    ELSE collationElements(charAt(s, 0)) \o collationElementsOf(slice(s, 1))

\* The sign of the comparison of two sequences of weights, weight by
\* weight, a proper prefix before the longer sequence.
RECURSIVE compareWeights(_, _)
compareWeights(x, y) ==
    IF Len(x) = 0 /\ Len(y) = 0 THEN 0
    ELSE IF Len(x) = 0 THEN 0 - 1
    ELSE IF Len(y) = 0 THEN 1
    ELSE IF x[1] < y[1] THEN 0 - 1
    ELSE IF x[1] > y[1] THEN 1
    ELSE compareWeights(Tail(x), Tail(y))

\* a.localeCompare(b) in the default locale: by the primary weights; for
\* texts of equal primary weights by the secondary weights (the accents);
\* for texts equal in these too by the tertiary weights (lower case before
\* upper case).  The weights of a level (1 primary, 2 secondary, 3
\* tertiary) are those of the elements that have one at that level.
localeCompare(a, b) ==
    LET weightsAt(elements, level) ==
            LET weighted == SelectSeq(elements, LAMBDA e : e[level] # 0)
            IN  [i \in 1..Len(weighted) |-> weighted[i][level]]
    IN  Bind(<<collationElementsOf(a), collationElementsOf(b)>>, LAMBDA es :
        Bind([level \in 1..3 |->
                 compareWeights(weightsAt(es[1], level),
                                weightsAt(es[2], level))], LAMBDA signs :
            IF signs[1] # 0 THEN signs[1]
            ELSE IF signs[2] # 0 THEN signs[2]
            ELSE signs[3]))

\* A plausible slip: the priorities are subtracted the wrong way round.
compareItems_Reversed(a, b) ==
    LET priorityA == getPriority(a.title)
        priorityB == getPriority(b.title)
    IN  IF priorityA # 999 \/ priorityB # 999 THEN priorityB - priorityA
        ELSE IF Len(a.order) > 0 /\ Len(b.order) > 0
        THEN minus(a.order, b.order)
        ELSE IF Len(a.order) > 0 THEN 0 - 1
        ELSE IF Len(b.order) > 0 THEN 1
        ELSE localeCompare(a.title, b.title)

\* The comparator handed to items.sort (lines 511-527).
compareItems(a, b) ==
    LET priorityA == getPriority(a.title)
        priorityB == getPriority(b.title)
    IN  IF priorityA # 999 \/ priorityB # 999 THEN priorityA - priorityB
        ELSE IF Len(a.order) > 0 /\ Len(b.order) > 0
        THEN minus(a.order, b.order)
        ELSE IF Len(a.order) > 0 THEN 0 - 1
        ELSE IF Len(b.order) > 0 THEN 1
        ELSE localeCompare(a.title, b.title)

\* A plausible slip (an unstable sort): x is placed before the elements
\* that compare equal to it.
RECURSIVE insertSorted_BeforeEqual(_, _)
insertSorted_BeforeEqual(sorted, x) ==
    IF Len(sorted) = 0 THEN <<x>>
    ELSE IF compareItems(Head(sorted), x) >= 0 THEN <<x>> \o sorted
    ELSE <<Head(sorted)>> \o insertSorted_BeforeEqual(Tail(sorted), x)

\* x placed into the sorted array: before the first element that must come
\* after it, so behind every element that compares equal to it.
RECURSIVE insertSorted(_, _)
insertSorted(sorted, x) ==
    IF Len(sorted) = 0 THEN <<x>>
    ELSE IF compareItems(Head(sorted), x) > 0 THEN <<x>> \o sorted
    ELSE <<Head(sorted)>> \o insertSorted(Tail(sorted), x)

\* Array.prototype.sort with compareItems: the sort is stable, and the
\* comparator is a consistent ordering, so the result is the one that
\* inserting the elements one by one gives.
RECURSIVE sortFrom(_, _)
sortFrom(sorted, rest) ==
    IF Len(rest) = 0 THEN sorted
    ELSE sortFrom(insertSorted(sorted, Head(rest)), Tail(rest))

sortNavigationItems(its) == sortFrom(<<>>, its)

----------------------------------------------------------------------------
(* Inputs of the title formatter: segments of up to MaxTokens tokens       *)
(* joined by "-".                                                          *)

MaxTokens == 3

Tokens == {"fund", "SQL", "use", "user", "the", "The", "jQuery", "state", ""}

Segments ==
    { join(ts, "-") : ts \in UNION { [1..n -> Tokens] : n \in 1..MaxTokens } }

Idle == <<>>

InitTitle ==
    /\ pc = "start"
    /\ str \in Segments
    /\ extracted = Idle
    /\ titled = Idle
    /\ retitled = Idle
    /\ items = Idle
    /\ categories = Idle
    /\ sections = Idle
    /\ input = Idle
    /\ sortedOnce = Idle
    /\ hasWindow = Idle
    /\ fs = Idle
    /\ fallbackNav = Idle
    /\ nav = Idle
    /\ errorLog = Idle
    /\ fsOps = Idle
    /\ fileText = Idle
    /\ parsed = Idle
    /\ builds = Idle
    /\ heap = Idle
    /\ currentPath = Idle
    /\ expanded = Idle

\* A caller runs extractCategoryFromPath(str).
ExtractCategoryFromPath ==
    /\ pc = "start"
    /\ extracted' = extractCategoryFromPath(str)
    /\ pc' = "extracted"
    /\ UNCHANGED <<str, titled, retitled, items, categories, sections, input>>
    /\ UNCHANGED <<sortedOnce, buildVars, expandVars>>

\* A caller runs toSmartTitleCase(str).
ToSmartTitleCase ==
    /\ pc = "start"
    /\ titled' = toSmartTitleCase(str)
    /\ pc' = "titled"
    /\ UNCHANGED <<str, extracted, retitled, items, categories, sections, input>>
    /\ UNCHANGED <<sortedOnce, buildVars, expandVars>>

\* A caller runs toSmartTitleCase on the title it got before.
ReTitle ==
    /\ pc = "titled"
    /\ retitled' = toSmartTitleCase(titled)
    /\ pc' = "retitled"
    /\ UNCHANGED <<str, extracted, titled, items, categories, sections, input>>
    /\ UNCHANGED <<sortedOnce, buildVars, expandVars>>

NextTitle == ExtractCategoryFromPath \/ ToSmartTitleCase \/ ReTitle

SpecTitle == InitTitle /\ [][NextTitle]_vars

----------------------------------------------------------------------------
(* Inputs of the categorizer: arrays of up to MaxItems items.              *)

MaxItems == 2

CatHrefs ==
    {"/db-storage", "/sql-basics/db-design", "/docs/DB-Admin/notes",
     "/docs/db-last", "/nosql-redis", "/proj-capstone", "/util-scripts",
     "/adv-docker", "/overview"}

CatTitles == {"Overview", "MySQL Tools"}

ChildPage == NavigationItem("Part One", "/x/part-one", <<>>, <<>>)

\* The hrefs that also occur on an item with children.
CatParentHrefs == {"/sql-basics/db-design", "/docs/DB-Admin/notes", "/overview"}

CatItems ==
    { NavigationItem(t, h, <<>>, <<>>) : t \in CatTitles, h \in CatHrefs }
        \cup { NavigationItem(t, h, <<ChildPage>>, <<>>) :
                 t \in CatTitles, h \in CatParentHrefs }

\* All arrays of at most n elements of S.
ArraysOf(S, n) == UNION { [1..k -> S] : k \in 0..n }

InitCat ==
    /\ pc = "start"
    /\ items \in ArraysOf(CatItems, MaxItems)
    /\ input = items
    /\ categories = Idle
    /\ sections = Idle
    /\ str = Idle
    /\ extracted = Idle
    /\ titled = Idle
    /\ retitled = Idle
    /\ sortedOnce = Idle
    /\ hasWindow = Idle
    /\ fs = Idle
    /\ fallbackNav = Idle
    /\ nav = Idle
    /\ errorLog = Idle
    /\ fsOps = Idle
    /\ fileText = Idle
    /\ parsed = Idle
    /\ builds = Idle
    /\ heap = Idle
    /\ currentPath = Idle
    /\ expanded = Idle

\* categorizeNavigationItems(items): the whole call.  The function only
\* reads the array and its items, so items is left as it was.
CategorizeNavigationItems ==
    /\ pc = "start"
    /\ categories' = forEachPush(emptyCategories, items)
    /\ sections' = buildSections(categories')
    /\ pc' = "categorized"
    /\ UNCHANGED <<items, input, str, extracted, titled, retitled>>
    /\ UNCHANGED <<sortedOnce, buildVars, expandVars>>

NextCat == CategorizeNavigationItems

SpecCat == InitCat /\ [][NextCat]_vars

----------------------------------------------------------------------------
(* Inputs of the keyword rules: one item, its title and href drawn from    *)
(* words the rules look for and words they do not, with or without a child.*)

KeywordTitles ==
    {"Overview", "Dev Tools", "NoSQL Basics", "Redis Cache", "Docker Notes",
     "Security"}

KeywordHrefs ==
    {"/overview", "/nosql", "/docker/nosql", "/nosql/setup", "/mongodb",
     "/guides/tools", "/db-storage"}

KeywordItems ==
    { NavigationItem(t, h, c, <<>>) :
        t \in KeywordTitles, h \in KeywordHrefs, c \in {<<>>, <<ChildPage>>} }

InitKeyword ==
    /\ pc = "start"
    /\ items \in { <<item>> : item \in KeywordItems }
    /\ input = items
    /\ categories = Idle
    /\ sections = Idle
    /\ str = Idle
    /\ extracted = Idle
    /\ titled = Idle
    /\ retitled = Idle
    /\ sortedOnce = Idle
    /\ hasWindow = Idle
    /\ fs = Idle
    /\ fallbackNav = Idle
    /\ nav = Idle
    /\ errorLog = Idle
    /\ fsOps = Idle
    /\ fileText = Idle
    /\ parsed = Idle
    /\ builds = Idle
    /\ heap = Idle
    /\ currentPath = Idle
    /\ expanded = Idle

SpecKeyword == InitKeyword /\ [][NextCat]_vars

----------------------------------------------------------------------------
(* Inputs of the sorter: arrays of up to MaxSiblings siblings.             *)

MaxSiblings == 3

SortItems ==
    { NavigationItem("Vocabulary", "/vocabulary", <<>>, <<>>),
      NavigationItem("Caching", "/caching", <<>>, <<>>),
      NavigationItem("Caching", "/fund-caching", <<>>, <<1>>),
      NavigationItem("Routing", "/routing", <<>>, <<2>>),
      NavigationItem("Bonus Material", "/bonus-material", <<>>, <<>>),
      NavigationItem("Bonus Setup", "/bonus-setup", <<>>, <<>>),
      NavigationItem("Bonus Security", "/bonus-security", <<>>, <<>>),
      NavigationItem("Security", "/sec-security", <<>>,
                     <<9007199, 254740992>>),
      NavigationItem("Performance", "/performance", <<>>, <<1>>),
      NavigationItem("API performance", "/api-performance", <<>>, <<>>) }

InitSort ==
    /\ pc = "start"
    /\ items \in ArraysOf(SortItems, MaxSiblings)
    /\ input = items
    /\ categories = Idle
    /\ sections = Idle
    /\ str = Idle
    /\ extracted = Idle
    /\ titled = Idle
    /\ retitled = Idle
    /\ sortedOnce = Idle
    /\ hasWindow = Idle
    /\ fs = Idle
    /\ fallbackNav = Idle
    /\ nav = Idle
    /\ errorLog = Idle
    /\ fsOps = Idle
    /\ fileText = Idle
    /\ parsed = Idle
    /\ builds = Idle
    /\ heap = Idle
    /\ currentPath = Idle
    /\ expanded = Idle

\* sortNavigationItems(items): items.sort sorts the array in place and
\* returns it.
SortNavigationItems ==
    /\ pc = "start"
    /\ items' = sortNavigationItems(items)
    /\ sortedOnce' = items'
    /\ pc' = "sorted"
    /\ UNCHANGED <<input, categories, sections, str, extracted, titled,
                   retitled, buildVars, expandVars>>

\* sortNavigationItems applied to the array it returned before.
ReSortNavigationItems ==
    /\ pc = "sorted"
    /\ items' = sortNavigationItems(items)
    /\ pc' = "resorted"
    /\ UNCHANGED <<input, sortedOnce, categories, sections, str, extracted,
                   titled, retitled, buildVars, expandVars>>

NextSort == SortNavigationItems \/ ReSortNavigationItems

SpecSort == InitSort /\ [][NextSort]_vars

----------------------------------------------------------------------------
(* setExpandedState, getClientSideNavigation                               *)

\* { ...item, isExpanded: b }: every field of item, isExpanded set to b.
withExpanded(item, b) ==
    [f \in DOMAIN item \cup {"isExpanded"} |->
        IF f = "isExpanded" THEN b ELSE item[f]]

\* A plausible slip: the prefix test without the "/" separator.
RECURSIVE isPathInSubtree_PlainPrefix(_, _)
isPathInSubtree_PlainPrefix(path, item) ==
    IF path = item.href THEN TRUE
    ELSE IF startsWith(path, item.href) THEN TRUE
    ELSE \E i \in 1..Len(item.children) :
            isPathInSubtree_PlainPrefix(path, item.children[i])

\* isPathInSubtree(currentPath, item); children.some over absent or empty
\* children is false.
RECURSIVE isPathInSubtree(_, _)
isPathInSubtree(path, item) ==
    IF path = item.href THEN TRUE
    ELSE IF startsWith(path, item.href \o "/") THEN TRUE
    ELSE \E i \in 1..Len(item.children) :
            isPathInSubtree(path, item.children[i])

\* A plausible slip: the copy is built field by field and order is left out.
RECURSIVE setItemExpandedState_NoOrder(_, _)
setItemExpandedState_NoOrder(item, path) ==
    [title |-> item.title,
     href |-> item.href,
     isExpanded |-> isPathInSubtree(path, item),
     children |-> [i \in 1..Len(item.children) |->
                      setItemExpandedState_NoOrder(item.children[i], path)],
     order |-> <<>>]

\* A plausible slip: an item that was expanded stays expanded.
RECURSIVE setItemExpandedState_Sticky(_, _)
setItemExpandedState_Sticky(item, path) ==
    [f \in DOMAIN item \cup {"isExpanded"} |->
        IF f = "isExpanded"
            THEN \/ isPathInSubtree(path, item)
                 \/ "isExpanded" \in DOMAIN item /\ item.isExpanded
        ELSE IF f = "children"
            THEN [i \in 1..Len(item.children) |->
                     setItemExpandedState_Sticky(item.children[i], path)]
        ELSE item[f]]

\* setItemExpandedState(item, currentPath): a copy of item with isExpanded
\* set and the children mapped the same way.
RECURSIVE setItemExpandedState(_, _)
setItemExpandedState(item, path) ==
    [f \in DOMAIN item \cup {"isExpanded"} |->
        IF f = "isExpanded" THEN isPathInSubtree(path, item)
        ELSE IF f = "children"
            THEN [i \in 1..Len(item.children) |->
                     setItemExpandedState(item.children[i], path)]
        ELSE item[f]]

\* currentPath.startsWith("/") ? currentPath : `/${currentPath}`
normalizedPath(path) == IF startsWith(path, "/") THEN path ELSE "/" \o path

\* setExpandedState(sections, currentPath)
setExpandedState(secs, path) ==
    [s \in 1..Len(secs) |->
        [title |-> secs[s].title,
         items |-> [i \in 1..Len(secs[s].items) |->
                      setItemExpandedState(secs[s].items[i],
                                           normalizedPath(path))]]]

\* if (currentPath): the optional argument is given and is not "".
isTruthy(arg) == Len(arg) > 0 /\ arg[1] # ""

\* getClientSideNavigation(currentPath?): arg is <<>> when the argument is
\* left out, <<p>> when it is p; fallback is the imported fallbackNav.
getClientSideNavigation(fallback, arg) ==
    IF isTruthy(arg) THEN setExpandedState(fallback, arg[1]) ELSE fallback

----------------------------------------------------------------------------
(* Inputs of the expansion projector: up to MaxExpandItems top-level items *)
(* split over two sections, and a current location.                        *)

MaxExpandItems == 2

ExpandItems ==
    { NavigationItem("A", "/a", <<>>, <<>>),
      NavigationItem("Ab", "/ab", <<>>, <<2>>),
      NavigationItem("C", "/a/b/c", <<>>, <<>>),
      NavigationItem("Home", "/", <<>>, <<>>),
      NavigationItem("A", "/a",
          <<NavigationItem("B", "/a/b", <<>>, <<1>>)>>, <<>>),
      NavigationItem("A", "/a",
          <<NavigationItem("B", "/a/b",
              <<NavigationItem("C", "/a/b/c", <<>>, <<>>)>>, <<>>)>>, <<3>>),
      NavigationItem("Guides", "/guides",
          <<NavigationItem("Ab", "/ab", <<>>, <<>>),
            NavigationItem("B", "/a/b", <<>>, <<>>)>>, <<>>),
      withExpanded(NavigationItem("B", "/a/b", <<>>, <<>>), TRUE) }

\* The items split into two sections after the first k.
ExpandTrees ==
    { << [title |-> "Fundamentals", items |-> SubSeq(arr, 1, k)],
         [title |-> "Databases", items |-> SubSeq(arr, k + 1, Len(arr))] >> :
        <<arr, k>> \in
            { ak \in ArraysOf(ExpandItems, MaxExpandItems) \X
                         (0..MaxExpandItems) : ak[2] <= Len(ak[1]) } }

\* The hand-authored navigation of ./fallback: one of two small menus, the
\* second with flags left by an earlier projection.
FallbackNavs ==
    { << [title |-> "Fundamentals",
          items |-> << NavigationItem("Home", "/", <<>>, <<>>),
                       NavigationItem("A", "/a",
                           <<NavigationItem("B", "/a/b", <<>>, <<1>>)>>,
                           <<>>) >>] >>,
      << [title |-> "Fundamentals",
          items |-> << withExpanded(
                          NavigationItem("Ab", "/ab", <<>>, <<>>), TRUE) >>],
         [title |-> "Databases",
          items |-> << withExpanded(
                          NavigationItem("A", "/a", <<>>, <<2>>), FALSE) >>]
      >> }

Locations == {"/a/b", "a/b", "/a", "/ab", "/a/b/c", "/", ""}

OptionalLocations == {<<>>} \cup { <<p>> : p \in Locations }

InitExpand ==
    /\ pc = "start"
    /\ sections \in ExpandTrees
    /\ input = sections
    /\ fallbackNav \in FallbackNavs
    /\ currentPath = Idle
    /\ expanded = Idle
    /\ items = Idle
    /\ categories = Idle
    /\ str = Idle
    /\ extracted = Idle
    /\ titled = Idle
    /\ retitled = Idle
    /\ sortedOnce = Idle
    /\ hasWindow = Idle
    /\ fs = Idle
    /\ nav = Idle
    /\ errorLog = Idle
    /\ fsOps = Idle
    /\ fileText = Idle
    /\ parsed = Idle
    /\ builds = Idle
    /\ heap = Idle

\* setExpandedState(sections, p): map and the spread build new arrays and
\* new objects, the argument is only read.
SetExpandedState ==
    /\ pc = "start"
    /\ \E p \in Locations :
        /\ currentPath' = <<p>>
        /\ expanded' = setExpandedState(sections, p)
    /\ pc' = "expanded"
    /\ UNCHANGED <<sections, input, fallbackNav, items, categories, str,
                   extracted, titled, retitled, sortedOnce, hasWindow, fs,
                   nav, errorLog, fsOps, fileText, parsed, builds,
                   heap>>

\* getClientSideNavigation(arg): the projection of the shared fallbackNav,
\* or fallbackNav itself.
GetClientSideNavigation ==
    /\ pc = "start"
    /\ \E arg \in OptionalLocations :
        /\ currentPath' = arg
        /\ expanded' = getClientSideNavigation(fallbackNav, arg)
    /\ pc' = "client"
    /\ UNCHANGED <<sections, input, fallbackNav, items, categories, str,
                   extracted, titled, retitled, sortedOnce, hasWindow, fs,
                   nav, errorLog, fsOps, fileText, parsed, builds,
                   heap>>

\* setExpandedState applied to the sections it returned before, for a
\* second location; currentPath keeps both locations, the later last.
ReSetExpandedState ==
    /\ pc = "expanded"
    /\ \E p \in Locations :
        /\ currentPath' = Append(currentPath, p)
        /\ expanded' = setExpandedState(expanded, p)
    /\ pc' = "reexpanded"
    /\ UNCHANGED <<sections, input, fallbackNav, items, categories, str,
                   extracted, titled, retitled, sortedOnce, hasWindow, fs,
                   nav, errorLog, fsOps, fileText, parsed, builds,
                   heap>>

NextExpand ==
    SetExpandedState \/ GetClientSideNavigation \/ ReSetExpandedState

SpecExpand == InitExpand /\ [][NextExpand]_vars

----------------------------------------------------------------------------
(* readMDXMetadata: the regular expressions, on the text of the file       *)

\* \s of a regular expression, on the characters a string here can hold:
\* space, tab, line feed, carriage return, form feed, vertical tab
\* (U+000B), no-break space (U+00A0), U+1680 and U+FEFF
isSpace(c) ==
    c \in {" ", "\t", "\n", "\r", "\f", "", " ", " ", "﻿"}

\* the characters "." does not match
isLineTerminator(c) == c \in {"\n", "\r"}

\* s.indexOf(sub, from), 0-based; -1 when absent
indexOfFrom(s, sub, from) ==
    LET at == { i \in from..(Len(s) - Len(sub)) :
                    SubSeq(s, i + 1, i + Len(sub)) = sub }
    IN  IF at = {} THEN 0 - 1
        ELSE CHOOSE i \in at : \A j \in at : i <= j

\* the 0-based index of the first character at or after i that pred rejects
\* (Len(s) when there is none): where a greedy \s*, \d+ or .+ stops
RECURSIVE runEnd(_, _, _)
runEnd(s, i, kind) ==
    IF i >= Len(s) THEN Len(s)
    ELSE LET c == charAt(s, i)
             in == CASE kind = "space" -> isSpace(c)
                     [] kind = "digit" -> isDigit(c)
                     [] kind = "dot" -> ~isLineTerminator(c)
         IN  IF in THEN runEnd(s, i + 1, kind) ELSE i

\* content.match(/^---\s*\n([\s\S]*?)\n---/): <<match[1]>>, or <<>> when
\* there is no match.  The greedy \s* gives characters back until a "\n"
\* follows it and a "\n---" follows the capture; the lazy capture then ends
\* at the first "\n---".
frontmatterMatch(content) ==
    IF ~startsWith(content, "---") THEN <<>>
    ELSE LET e == runEnd(content, 3, "space")
             ks == { k \in 3..(e - 1) :
                        /\ charAt(content, k) = "\n"
                        /\ indexOfFrom(content, "\n---", k + 1) >= 0 }
         IN  IF ks = {} THEN <<>>
             ELSE LET k == CHOOSE x \in ks : \A y \in ks : y <= x
                      j == indexOfFrom(content, "\n---", k + 1)
                  IN  <<SubSeq(content, k + 2, j)>>

\* frontmatter.match(/title:\s*["'](.+)["']/), tried at "title:" from 0-based
\* index from on: <<match[1]>> or <<>>.  The greedy .+ runs to the end of
\* the line and gives characters back to the last quote of the line.
RECURSIVE titleMatchFrom(_, _)
titleMatchFrom(fm, from) ==
    LET i == indexOfFrom(fm, "title:", from)
    IN  IF i < 0 THEN <<>>
        ELSE LET q == runEnd(fm, i + 6, "space")
                 le == runEnd(fm, q + 1, "dot")
                 cs == { c \in (q + 2)..(le - 1) : charAt(fm, c) \in {"\"", "'"} }
             IN  IF charAt(fm, q) \in {"\"", "'"} /\ cs # {}
                 THEN LET c == CHOOSE x \in cs : \A y \in cs : y <= x
                      IN  <<SubSeq(fm, q + 2, c)>>
                 ELSE titleMatchFrom(fm, i + 1)

\* frontmatter.match(/order:\s*(\d+)/), tried at "order:" from 0-based index
\* from on: <<match[1]>> or <<>>
RECURSIVE orderMatchFrom(_, _)
orderMatchFrom(fm, from) ==
    LET i == indexOfFrom(fm, "order:", from)
    IN  IF i < 0 THEN <<>>
        ELSE LET q == runEnd(fm, i + 6, "space")
                 e == runEnd(fm, q, "digit")
             IN  IF e > q THEN <<SubSeq(fm, q + 1, e)>>
                 ELSE orderMatchFrom(fm, i + 1)

\* The metadata object: title and order are <<>> when the key is absent.
Metadata(title, order) == [title |-> title, order |-> order]

\* A plausible slip: an order that was not matched defaults to 0.
readMDXMetadata_DefaultOrder(window, read) ==
    IF window THEN Metadata(<<>>, <<0>>)
    ELSE IF Len(read) = 0 THEN Metadata(<<>>, <<0>>)
    ELSE Bind(frontmatterMatch(read[1]), LAMBDA match :
            IF Len(match) = 0 THEN Metadata(<<>>, <<0>>)
            ELSE Bind(orderMatchFrom(match[1], 0), LAMBDA orderMatch :
                    Metadata(titleMatchFrom(match[1], 0),
                             IF Len(orderMatch) > 0
                                 THEN parseInt(orderMatch[1])
                                 ELSE <<0>>)))

\* readMDXMetadata(filePath): window tells whether window is defined, read
\* is what fs.readFileSync gives, <<text>>, or <<>> when it throws (no such
\* file, a directory, no permission).
readMDXMetadata(window, read) ==
    IF window THEN Metadata(<<>>, <<>>)
    ELSE IF Len(read) = 0 THEN Metadata(<<>>, <<>>)
    ELSE Bind(frontmatterMatch(read[1]), LAMBDA match :
            IF Len(match) = 0 THEN Metadata(<<>>, <<>>)
            ELSE Bind(orderMatchFrom(match[1], 0), LAMBDA orderMatch :
                    Metadata(titleMatchFrom(match[1], 0),
                             IF Len(orderMatch) > 0
                                 THEN parseInt(orderMatch[1])
                                 ELSE <<>>)))

----------------------------------------------------------------------------
(* scanDirectory and buildNavigationFromFileSystem, over a content tree:   *)
(* the content tree, the steps of the scan that read it, and what a call   *)
(* returns when it runs alone from its start to its return.                *)

\* An entry of a directory with what lies behind it.  A file has a text,
\* <<>> when reading it throws; a directory has its entries in the order
\* readdirSync lists them, and fails tells that readdirSync throws on it.
\* reachable tells that the path of the entry leads somewhere: it is FALSE
\* for a listed name with nothing behind it.
File(name, text) ==
    [isDirectory |-> FALSE, name |-> name, text |-> text, entries |-> <<>>,
     fails |-> FALSE, reachable |-> TRUE]

Dir(name, entries, fails) ==
    [isDirectory |-> TRUE, name |-> name, text |-> <<>>, entries |-> entries,
     fails |-> fails, reachable |-> TRUE]

\* A name readdirSync lists with nothing behind it (a symbolic link whose
\* target is gone): not a directory, and existsSync is false for it.
Dangling(name) ==
    [isDirectory |-> FALSE, name |-> name, text |-> <<>>, entries |-> <<>>,
     fails |-> FALSE, reachable |-> FALSE]

\* path.join(a, b) for a directory path a and a name b
pathJoin(a, b) == a \o "/" \o b

\* process.cwd(): the directory the site is built in
cwd == "/site"

\* path.join(process.cwd(), "src/app")
appDir == pathJoin(cwd, "src/app")

\* The file system a build sees: the directory behind src/app, and whether
\* the working directory of the process is gone, so that process.cwd()
\* throws.
Site(dir, cwdGone) ==
    [f \in DOMAIN dir \cup {"cwdGone"} |->
        IF f = "cwdGone" THEN cwdGone ELSE dir[f]]

\* A plausible slip: the shared layout file is not on the skip list.
isSkipped_NoLayout(name) ==
    \/ startsWith(name, ".")
    \/ name = "globals.css"
    \/ name = "favicon.ico"

\* the entries the loop of scanDirectory passes over
isSkipped(name) ==
    \/ startsWith(name, ".")
    \/ name = "globals.css"
    \/ name = "favicon.ico"
    \/ name = "layout.tsx"

pageFiles == <<"page.tsx", "page.mdx", "page.js">>

\* fs.existsSync(path.join(fullPath, file)) for the directory behind
\* fullPath: the file system is asked again, the listing is not consulted
existsSync(dir, file) ==
    \E i \in 1..Len(dir.entries) :
        dir.entries[i].name = file /\ dir.entries[i].reachable

\* pageFiles.find(existsSync): the index in pageFiles of the first page file
\* that exists, 0 when there is none (hasPage is false)
findPageFile(dir) ==
    LET found == { k \in 1..Len(pageFiles) : existsSync(dir, pageFiles[k]) }
    IN  IF found = {} THEN 0
        ELSE CHOOSE k \in found : \A j \in found : k <= j

\* the existsSync calls of pageFiles.some and pageFiles.find: both stop at
\* the first page file that exists
existsSyncCalls(dir, fullPath) ==
    LET k == findPageFile(dir)
        last == IF k = 0 THEN Len(pageFiles) ELSE k
    IN  { <<"existsSync", pathJoin(fullPath, pageFiles[j])>> : j \in 1..last }

\* fs.readFileSync of the file named file in dir: <<text>>, or <<>> when it
\* throws
readFileSync(dir, file) ==
    LET i == CHOOSE x \in 1..Len(dir.entries) : dir.entries[x].name = file
    IN  IF dir.entries[i].isDirectory THEN <<>> ELSE dir.entries[i].text

\* metadata.title || toSmartTitleCase(entry.name)
titleOrName(metadata, name) ==
    IF Len(metadata.title) > 0 /\ metadata.title[1] # ""
        THEN metadata.title[1]
        ELSE toSmartTitleCase(name)

\* routePath === "/page" ? "/" : routePath
pageHref(routePath) == IF routePath = "/page" THEN "/" ELSE routePath

\* What one scan gives: the items it returns, the directories it logged an
\* error for, and the file-system calls it made.
ScanResult(its, errors, ops) == [items |-> its, errors |-> errors, ops |-> ops]

\* A plausible slip: the catch returns [] without logging.
scanFailed_Silent(dirPath) ==
    ScanResult(<<>>, {}, {<<"readdirSync", dirPath>>})

\* the catch of scanDirectory: console.error(..., dirPath, error), return []
scanFailed(dirPath) ==
    ScanResult(<<>>, {dirPath}, {<<"readdirSync", dirPath>>})

\* A plausible slip: a directory without a page file is pushed even when
\* the scan below it found nothing.
groupItems_AlwaysPushed(name, routePath, children) ==
    <<NavigationItem(toSmartTitleCase(name), routePath,
                     sortNavigationItems(children), <<>>)>>

\* A plausible slip: the grouping item links nowhere.
groupItems_NoRoute(name, routePath, children) ==
    IF Len(children) > 0
        THEN <<NavigationItem(toSmartTitleCase(name), "#",
                              sortNavigationItems(children), <<>>)>>
        ELSE <<>>

\* the branch for a directory without a page file: the item pushed, if any
groupItems(name, routePath, children) ==
    IF Len(children) > 0
        THEN <<NavigationItem(toSmartTitleCase(name), routePath,
                              sortNavigationItems(children), <<>>)>>
        ELSE <<>>

\* the branch for a directory with a page file: the item pushed
pageItem(name, routePath, metadata, children) ==
    NavigationItem(titleOrName(metadata, name), pageHref(routePath),
                   IF Len(children) > 0 THEN sortNavigationItems(children)
                                        ELSE <<>>,
                   metadata.order)

RECURSIVE flatten(_)
flatten(seqs) ==
    IF Len(seqs) = 0 THEN <<>> ELSE Head(seqs) \o flatten(Tail(seqs))

RECURSIVE scanDirectory(_, _, _)
RECURSIVE scanEntry(_, _, _)

\* One turn of the loop of scanDirectory, for entry of the directory dirPath.
\* window is undefined whenever scanDirectory runs, so readMDXMetadata reads
\* the file.
scanEntry(entry, dirPath, basePath) ==
    IF isSkipped(entry.name) \/ ~entry.isDirectory
    THEN ScanResult(<<>>, {}, {})
    ELSE
    Bind(pathJoin(dirPath, entry.name), LAMBDA fullPath :
    Bind(basePath \o "/" \o entry.name, LAMBDA routePath :
    Bind(findPageFile(entry), LAMBDA k :
    Bind(scanDirectory(entry, fullPath, routePath), LAMBDA children :
        IF k > 0
        THEN
            Bind(readFileSync(entry, pageFiles[k]), LAMBDA read :
            Bind(readMDXMetadata(FALSE, read), LAMBDA metadata :
                ScanResult(
                    <<pageItem(entry.name, routePath, metadata,
                               children.items)>>,
                    children.errors,
                    existsSyncCalls(entry, fullPath)
                        \cup {<<"readFileSync",
                                pathJoin(fullPath, pageFiles[k])>>}
                        \cup children.ops)))
        ELSE
            ScanResult(
                groupItems(entry.name, routePath, children.items),
                children.errors,
                existsSyncCalls(entry, fullPath) \cup children.ops)))))

\* scanDirectory(dirPath, basePath), dir being the directory behind dirPath
scanDirectory(dir, dirPath, basePath) ==
    IF dir.fails THEN scanFailed(dirPath)
    ELSE
    Bind([i \in 1..Len(dir.entries) |->
             scanEntry(dir.entries[i], dirPath, basePath)], LAMBDA turns :
    Bind(flatten([i \in 1..Len(turns) |-> turns[i].items]), LAMBDA pushed :
        ScanResult(
            sortNavigationItems(pushed),
            UNION { turns[i].errors : i \in 1..Len(turns) },
            {<<"readdirSync", dirPath>>}
                \cup UNION { turns[i].ops : i \in 1..Len(turns) })))

\* categorizeNavigationItems(items)
categorizeNavigationItems(its) ==
    buildSections(forEachPush(emptyCategories, its))

\* What one build gives: the sections returned, the array scanDirectory
\* returned for src/app, the errors logged and the file-system calls made.
BuildResult(returned, scanned, errors, ops) ==
    [nav |-> returned, scanned |-> scanned, errors |-> errors, ops |-> ops]

\* buildNavigationFromFileSystem(): with window defined fallbackNav is
\* returned at once.  In the try block process.cwd() throws when the
\* working directory is gone, and the catch returns fallbackNav; nothing
\* throws past scanDirectory's own catch.
buildNavigationFromFileSystem(window, root, fallback) ==
    IF window THEN BuildResult(fallback, <<>>, {}, {})
    ELSE IF root.cwdGone THEN BuildResult(fallback, <<>>, {}, {})
    ELSE Bind(scanDirectory(root, appDir, ""), LAMBDA r :
            BuildResult(categorizeNavigationItems(r.items), r.items,
                        r.errors, r.ops))

----------------------------------------------------------------------------
(* buildNavigationFromFileSystem and scanDirectory step by step.  The      *)
(* arrays a call makes are in heap, each under the address it was made     *)
(* at; an item holds as children nothing or the address of its children    *)
(* array.  An item is written before it is pushed and never after, so an   *)
(* array holds its items by value.  A step runs one call from one await    *)
(* to the next: what an async function does before its first await is      *)
(* part of the step that calls it, what follows an await is a step of its  *)
(* own, and so is what follows the return of an awaited call.              *)

\* A plausible slip: one array is kept for each directory and handed to
\* every call that scans it.
newArray_PerDirectory(c, k, dirPath) == <<0, dirPath>>

\* the address of the k-th array the build c makes: a new one each time
\* ([] at lines 534 and 603)
newArray(c, k, dirPath) == <<c, k>>

\* the heap with an empty array at address a
allocate(h, a) == [x \in DOMAIN h \cup {a} |-> IF x = a THEN <<>> ELSE h[x]]

\* the item as an array holds it: its children, if any, by the address a
held(item, a) ==
    [item EXCEPT !.children = IF Len(@) > 0 THEN <<a>> ELSE <<>>]

\* the array at address a as a tree: each child array in place of its
\* address
RECURSIVE itemsAt(_, _)
itemsAt(h, a) ==
    [i \in 1..Len(h[a]) |->
        [h[a][i] EXCEPT
            !.children = IF Len(@) > 0 THEN itemsAt(h, @[1]) ELSE <<>>]]

\* A call of scanDirectory(dirPath, basePath) in progress: the directory
\* behind dirPath, the index i of the entry the loop is at, the address of
\* the local array items, where the call stands (in the loop, waiting for
\* readMDXMetadata, waiting for the scan of entry i, or returned and not
\* yet taken up by its caller), the metadata read for entry i, the item
\* made for it and the address of the array the call returned.
Frame(dir, dirPath, basePath, its) ==
    [dir |-> dir, dirPath |-> dirPath, basePath |-> basePath, i |-> 1,
     items |-> its, stage |-> "loop", metadata |-> <<>>, item |-> <<>>,
     value |-> <<>>]

\* A call of buildNavigationFromFileSystem: its scanDirectory calls, the
\* innermost last, the sections it returned, the array they were made of
\* (navigationItems), the directories it logged and the number of arrays
\* it has made.
Build(at, stack, returned, navigationItems, errors, made) ==
    [pc |-> at, stack |-> stack, returned |-> returned,
     navigationItems |-> navigationItems, errors |-> errors, made |-> made]

\* What a step has come to: the call, the heap, and the file-system calls
\* the call has made.
Run(b, h, ops) == [build |-> b, heap |-> h, ops |-> ops]

\* the innermost scanDirectory call of a build
top(b) == b.stack[Len(b.stack)]

\* the stack with its innermost call replaced by f
withTop(stack, f) == [stack EXCEPT ![Len(stack)] = f]

\* A plausible slip: the array is returned as the loop filled it.
sortedItems_AsFilled(its) == its

\* const sortedItems = sortNavigationItems(items)
sortedItems(its) == sortNavigationItems(its)

\* if (children.length > 0) item.children = sortNavigationItems(children)
withChildren(item, children) ==
    IF Len(children) > 0
        THEN [item EXCEPT !.children = sortNavigationItems(children)]
        ELSE item

\* A plausible slip: the window test is missing.
startsScan_NoWindowTest(window, root) == ~root.cwdGone

\* buildNavigationFromFileSystem gets as far as scanDirectory: window is
\* undefined and process.cwd() does not throw
startsScan(window, root) == ~window /\ ~root.cwdGone

RECURSIVE runLoop(_, _)
RECURSIVE callScanDirectory(_, _, _, _, _)

\* The build c calls scanDirectory(dirPath, basePath), dir being the
\* directory behind dirPath, and the call runs up to its first await or its
\* return: the local array is made, the directory is listed and, when that
\* throws, the catch logs and returns a new empty array; else the loop
\* starts.
callScanDirectory(c, r, dir, dirPath, basePath) ==
    Bind(newArray(c, r.build.made + 1, dirPath), LAMBDA its :
    Bind(newArray(c, r.build.made + 2, dirPath), LAMBDA empty :
    Bind(Frame(dir, dirPath, basePath, its), LAMBDA f :
        IF dir.fails
        THEN Run([r.build EXCEPT
                     !.made = @ + 2,
                     !.errors = @ \cup scanFailed(dirPath).errors,
                     !.stack = Append(@, [f EXCEPT !.stage = "returned",
                                                   !.value = <<empty>>])],
                 allocate(allocate(r.heap, its), empty),
                 r.ops \cup scanFailed(dirPath).ops)
        ELSE runLoop(c,
                 Run([r.build EXCEPT !.made = @ + 1, !.stack = Append(@, f)],
                     allocate(r.heap, its),
                     r.ops \cup {<<"readdirSync", dirPath>>})))))

\* The loop of the innermost scanDirectory call of the build c runs on to
\* the next await or to the return.  Past the last entry the array is
\* sorted where it lies and returned.  A skipped entry and a file are
\* passed over.  For a directory with a page file readMDXMetadata is
\* called (it reads the file without waiting for anything) and awaited;
\* for one without, scanDirectory is called and awaited.
runLoop(c, r) ==
    Bind(top(r.build), LAMBDA f :
        IF f.i > Len(f.dir.entries)
        THEN Run([r.build EXCEPT
                     !.stack = withTop(@, [f EXCEPT !.stage = "returned",
                                                    !.value = <<f.items>>])],
                 [r.heap EXCEPT ![f.items] = sortedItems(@)],
                 r.ops)
        ELSE
        Bind(f.dir.entries[f.i], LAMBDA entry :
            IF isSkipped(entry.name) \/ ~entry.isDirectory
            THEN runLoop(c,
                     Run([r.build EXCEPT
                             !.stack = withTop(@, [f EXCEPT !.i = @ + 1])],
                         r.heap, r.ops))
            ELSE
            Bind(pathJoin(f.dirPath, entry.name), LAMBDA fullPath :
            Bind(findPageFile(entry), LAMBDA k :
                IF k > 0
                THEN Run([r.build EXCEPT
                             !.stack =
                                 withTop(@,
                                     [f EXCEPT
                                         !.stage = "metadata",
                                         !.metadata =
                                             <<readMDXMetadata(FALSE,
                                                   readFileSync(entry,
                                                       pageFiles[k]))>>])],
                         r.heap,
                         r.ops \cup existsSyncCalls(entry, fullPath)
                               \cup {<<"readFileSync",
                                       pathJoin(fullPath, pageFiles[k])>>})
                ELSE callScanDirectory(c,
                         Run([r.build EXCEPT
                                 !.stack =
                                     withTop(@, [f EXCEPT
                                                    !.stage = "children"])],
                             r.heap,
                             r.ops \cup existsSyncCalls(entry, fullPath)),
                         entry, fullPath,
                         f.basePath \o "/" \o entry.name)))))

\* The innermost scanDirectory call of the build c has its metadata: the
\* item is made, scanDirectory is called for the directory and awaited.
afterMetadata(c, r) ==
    Bind(top(r.build), LAMBDA f :
    Bind(f.dir.entries[f.i], LAMBDA entry :
    Bind(f.basePath \o "/" \o entry.name, LAMBDA routePath :
        callScanDirectory(c,
            Run([r.build EXCEPT
                    !.stack =
                        withTop(@,
                            [f EXCEPT
                                !.stage = "children",
                                !.metadata = <<>>,
                                !.item = <<pageItem(entry.name, routePath,
                                                    f.metadata[1], <<>>)>>])],
                r.heap, r.ops),
            entry, pathJoin(f.dirPath, entry.name), routePath))))

\* The scan the caller f awaited has returned the array at address a.  The
\* item made for the entry gets the array, sorted where it lies, as its
\* children if it holds anything, and is pushed; for a directory without a
\* page file the grouping item is pushed, if any.  The loop goes on.
afterScan(c, r) ==
    Bind(top(r.build).value[1], LAMBDA a :
    Bind(r.build.stack[Len(r.build.stack) - 1], LAMBDA f :
    Bind(f.dir.entries[f.i], LAMBDA entry :
    Bind(IF Len(f.item) > 0
            THEN <<withChildren(f.item[1], r.heap[a])>>
            ELSE groupItems(entry.name, f.basePath \o "/" \o entry.name,
                            r.heap[a]), LAMBDA pushed :
        runLoop(c,
            Run([r.build EXCEPT
                    !.stack =
                        withTop(SubSeq(@, 1, Len(@) - 1),
                                [f EXCEPT !.i = @ + 1, !.stage = "loop",
                                          !.item = <<>>])],
                [r.heap EXCEPT
                    ![a] = IF Len(pushed) > 0 /\ Len(pushed[1].children) > 0
                               THEN pushed[1].children
                               ELSE @,
                    ![f.items] =
                        @ \o [i \in 1..Len(pushed) |-> held(pushed[i], a)]],
                r.ops))))))

----------------------------------------------------------------------------
(* Inputs of the build: up to MaxTop entries under src/app, an environment *)
(* with or without window, and up to MaxBuilds calls, each started while   *)
(* the ones before it are under way or done.                               *)

MaxTop == 2

MaxBuilds == 2

PagePlain == <<"export default function Page() {}">>

PageCustom == <<"---\ntitle: \"Custom Name\"\norder: 2\n---\n# Storage">>

PageTitleOnly == <<"---\ntitle: 'Overview'\n---\n">>

PageOrderOnly == <<"---\ntitle: Setup\norder: 3\n---\n">>

\* an order beyond 2^53
PageLargeOrder == <<"---\ntitle: \"Home\"\norder: 9007199254740993\n---\n">>

Unreadable == <<>>

\* the directories that come to a tree in any number
CoreEntries ==
    { Dir("fund-intro", <<File("page.tsx", PagePlain)>>, FALSE),
      Dir("db-storage",
          <<File("page.tsx", PagePlain),
            Dir("sub-topic", <<File("page.tsx", PagePlain)>>, FALSE)>>,
          FALSE),
      Dir("guides",
          <<Dangling("page.tsx"),
            Dir("setup", <<File("page.js", PageOrderOnly)>>, FALSE)>>,
          FALSE) }

\* entries of src/app that the loop passes over
PassedOver ==
    { Dir(".hidden", <<File("page.tsx", PageTitleOnly)>>, FALSE),
      Dir("layout.tsx", <<File("page.tsx", PagePlain)>>, FALSE),
      File("page.tsx", PageCustom) }

\* the directories that come to a tree one at a time
LoneEntries ==
    { Dir("db-storage", <<File("page.mdx", PageCustom)>>, FALSE),
      Dir("sec-auth",
          <<File("page.mdx", PageCustom), File("page.tsx", PageTitleOnly)>>,
          FALSE),
      Dir("drafts", <<Dir("old", <<File("notes.txt", PagePlain)>>, FALSE)>>,
          FALSE),
      Dir("api-docs",
          <<File("page.tsx", PagePlain),
            File("layout.tsx", PagePlain),
            File("globals.css", PagePlain),
            Dir(".cache",
                <<Dir("tmp", <<File("page.tsx", PagePlain)>>, FALSE)>>,
                FALSE),
            Dir("favicon.ico", <<File("page.tsx", PagePlain)>>, FALSE)>>,
          FALSE),
      Dir("page", <<File("page.tsx", PageLargeOrder)>>, FALSE),
      Dir("perf-cache",
          <<File("page.tsx", PagePlain),
            Dir("deep", <<File("page.tsx", PagePlain)>>, FALSE)>>,
          TRUE),
      Dir("broken",
          <<Dir("inner", <<File("page.tsx", PagePlain)>>, FALSE)>>, TRUE),
      Dir("adv-topics",
          <<File("page.tsx", PagePlain),
            Dir("locked", <<File("page.tsx", PagePlain)>>, TRUE),
            Dir("open", <<File("page.tsx", PagePlain)>>, FALSE)>>,
          FALSE),
      Dir("util-tools",
          <<Dangling("page.tsx"), File("page.mdx", Unreadable)>>, FALSE),
      Dir("db-tools",
          <<Dir("setup", <<File("page.js", PageOrderOnly)>>, FALSE),
            Dir("api-vocabulary", <<File("page.tsx", PagePlain)>>, FALSE)>>,
          FALSE) }

TopEntries == CoreEntries \cup PassedOver \cup LoneEntries

\* a directory without a page file whose name carries the category code
\* and whose title has a keyword of another section
CodeGroup(code) ==
    Dir(code \o "-sql-security",
        <<Dir("notes", <<File("page.tsx", PagePlain)>>, FALSE)>>, FALSE)

\* the names of a directory's entries are distinct
DistinctNames(entries) ==
    \A i, j \in 1..Len(entries) : entries[i].name = entries[j].name => i = j

\* src/app: listable with up to MaxTop entries (at most one of them from
\* LoneEntries, and all from CoreEntries when there are more than two),
\* or holding the directory of one category code, or not listable at all,
\* or out of reach because the working directory is gone
Roots ==
    { Site(Dir("app", es, FALSE), FALSE) :
        es \in { a \in ArraysOf(TopEntries, MaxTop) :
                   /\ DistinctNames(a)
                   /\ \A i, j \in 1..Len(a) :
                          (a[i] \in LoneEntries /\ a[j] \in LoneEntries)
                              => i = j
                   /\ Len(a) > 2 => \A i \in 1..Len(a) : a[i] \in CoreEntries } }
    \cup
    { Site(Dir("app", <<CodeGroup(CATEGORY_PREFIXES[k])>>, FALSE), FALSE) :
        k \in 1..Len(CATEGORY_PREFIXES) }
    \cup
    { Site(Dir("app",
               <<Dir("fund-intro", <<File("page.tsx", PagePlain)>>, FALSE)>>,
               TRUE), FALSE),
      Site(Dir("app",
               <<Dir("fund-intro", <<File("page.tsx", PagePlain)>>, FALSE)>>,
               FALSE), TRUE) }

InitBuild ==
    /\ pc = "start"
    /\ fs \in Roots
    /\ hasWindow \in BOOLEAN
    \* the menu is read only when the scan is not made: one stands for it
    \* otherwise
    /\ fallbackNav \in
          { f \in FallbackNavs : ~startsScan(hasWindow, fs) \/ Len(f) = 1 }
    /\ builds = [c \in 1..MaxBuilds |-> Build("idle", <<>>, <<>>, <<>>, {}, 0)]
    /\ heap = <<>>
    /\ nav = Idle
    /\ items = Idle
    /\ errorLog = {}
    /\ fsOps = <<>>
    /\ fileText = Idle
    /\ parsed = Idle
    /\ input = Idle
    /\ categories = Idle
    /\ sections = Idle
    /\ str = Idle
    /\ extracted = Idle
    /\ titled = Idle
    /\ retitled = Idle
    /\ sortedOnce = Idle
    /\ currentPath = Idle
    /\ expanded = Idle

\* what no step of a build writes
buildFrame ==
    <<fs, hasWindow, fallbackNav, fileText, parsed, input, categories,
      sections, str, extracted, titled, retitled, sortedOnce, expandVars>>

\* A step of the build c has come to r without returning: the call, the
\* heap, the console and the file-system calls of the call are as r has
\* them.
Suspend(c, r) ==
    /\ builds' = [builds EXCEPT ![c] = r.build]
    /\ heap' = r.heap
    /\ errorLog' = errorLog \cup r.build.errors
    /\ fsOps' = IF c > Len(fsOps) THEN Append(fsOps, r.ops)
                 ELSE [fsOps EXCEPT ![c] = r.ops]
    /\ pc' = "scanning"
    /\ UNCHANGED <<nav, items>>

\* buildNavigationFromFileSystem() is called, as call c (the calls are
\* numbered in the order they are made).  With window defined, or when
\* process.cwd() throws, it returns fallbackNav; else it calls
\* scanDirectory(appDir, "") and awaits it.
StartBuild(c) ==
    /\ builds[c].pc = "idle"
    /\ c > 1 => builds[c - 1].pc # "idle"
    /\ IF startsScan(hasWindow, fs)
       THEN \E r \in {callScanDirectory(c,
                          Run([builds[c] EXCEPT !.pc = "scanning"], heap, {}),
                          fs, appDir, "")} :
                Suspend(c, r)
       ELSE /\ builds' = [builds EXCEPT ![c].pc = "done",
                                        ![c].returned = fallbackNav]
            /\ nav' = fallbackNav
            /\ items' = <<>>
            /\ fsOps' = Append(fsOps, {})
            /\ pc' = "built"
            /\ UNCHANGED <<heap, errorLog>>
    /\ UNCHANGED buildFrame

\* readMDXMetadata has returned to the innermost scanDirectory call of the
\* build c, which goes on after its await (line 565).
ResumeAfterMetadata(c) ==
    /\ builds[c].pc = "scanning"
    /\ top(builds[c]).stage = "metadata"
    /\ \E r \in {afterMetadata(c, Run(builds[c], heap, fsOps[c]))} :
           Suspend(c, r)
    /\ UNCHANGED buildFrame

\* The innermost scanDirectory call of the build c has returned to the
\* scanDirectory call that awaits it (lines 574 and 582), which goes on.
ResumeAfterScan(c) ==
    /\ builds[c].pc = "scanning"
    /\ Len(builds[c].stack) > 1
    /\ top(builds[c]).stage = "returned"
    /\ \E r \in {afterScan(c, Run(builds[c], heap, fsOps[c]))} :
           Suspend(c, r)
    /\ UNCHANGED buildFrame

\* scanDirectory(appDir, "") has returned to the build c (line 450), which
\* categorises the array and returns the sections: nav is what it returns
\* and items the array as a tree.
ResumeBuild(c) ==
    /\ builds[c].pc = "scanning"
    /\ Len(builds[c].stack) = 1
    /\ top(builds[c]).stage = "returned"
    /\ \E a \in {top(builds[c]).value[1]} :
       \E navigationItems \in {itemsAt(heap, a)} :
       \E returned \in {categorizeNavigationItems(navigationItems)} :
           /\ builds' = [builds EXCEPT ![c].pc = "done",
                                       ![c].stack = <<>>,
                                       ![c].returned = returned,
                                       ![c].navigationItems = <<a>>]
           /\ nav' = returned
           /\ items' = navigationItems
    /\ pc' = "built"
    /\ UNCHANGED <<heap, errorLog, fsOps>>
    /\ UNCHANGED buildFrame

NextBuild ==
    \E c \in 1..MaxBuilds :
        \/ StartBuild(c)
        \/ ResumeAfterMetadata(c)
        \/ ResumeAfterScan(c)
        \/ ResumeBuild(c)

SpecBuild == InitBuild /\ [][NextBuild]_vars

----------------------------------------------------------------------------
(* Inputs of the metadata reader: a file made of an opening, up to         *)
(* MaxLines lines and a closing, or a file that cannot be read.             *)

MaxLines == 2

Openings == {"---\n", "--- \n\n", "# Page\n---\n", "--"}

\* (the last line has a vertical tab, U+000B, after the colon)
FrontLines ==
    { "title: \"A b\"", "title: 'C'", "title: Plain", "subtitle: \"S\"",
      "order: 2", "order:10", "order: x", "order: 9007199254740993",
      "order:7" }

Closings == {"\n---\n", "\n--", ""}

\* The files: what they are made of, and whether reading them succeeds.
MetaFiles ==
    { [opening |-> o, lines |-> ls, closing |-> c, readable |-> TRUE] :
        o \in Openings, ls \in ArraysOf(FrontLines, MaxLines), c \in Closings }
    \cup
    { [opening |-> "---\n", lines |-> <<"title: \"A b\"">>,
       closing |-> "\n---\n", readable |-> FALSE] }

\* the text of the file
contentOf(file) == file.opening \o join(file.lines, "\n") \o file.closing

InitMeta ==
    /\ pc = "start"
    /\ input \in MetaFiles
    /\ fileText = IF input.readable THEN <<contentOf(input)>> ELSE <<>>
    /\ hasWindow \in BOOLEAN
    /\ parsed = Idle
    /\ builds = Idle
    /\ heap = Idle
    /\ fs = Idle
    /\ fallbackNav = Idle
    /\ nav = Idle
    /\ errorLog = Idle
    /\ fsOps = Idle
    /\ items = Idle
    /\ categories = Idle
    /\ sections = Idle
    /\ str = Idle
    /\ extracted = Idle
    /\ titled = Idle
    /\ retitled = Idle
    /\ sortedOnce = Idle
    /\ currentPath = Idle
    /\ expanded = Idle

\* readMDXMetadata(filePath), from call to return
ReadMDXMetadata ==
    /\ pc = "start"
    /\ parsed' = readMDXMetadata(hasWindow, fileText)
    /\ pc' = "read"
    /\ UNCHANGED <<input, fileText, hasWindow, builds, heap, fs, fallbackNav,
                   nav, errorLog, fsOps, items, categories, sections, str,
                   extracted, titled, retitled, sortedOnce, expandVars>>

NextMeta == ReadMDXMetadata

SpecMeta == InitMeta /\ [][NextMeta]_vars

----------------------------------------------------------------------------
(* Properties of extractCategoryFromPath and toSmartTitleCase              *)

\* The category codes and the minor words as the specification lists them.
CategoryCodes ==
    {"sql", "nosql", "fund", "adv", "util", "db", "api", "sec", "perf",
     "dep", "proj"}

ListedMinorWords ==
    {"a", "an", "and", "the", "but", "or", "nor", "as", "at", "by", "with",
     "for", "in", "of", "on", "per", "to", "via", "vs", "v"}

\* The text of s before its first "-" (s itself when it has none), and the
\* text after that "-".
FirstToken(s) ==
    IF indexOf(s, "-") < 0 THEN s ELSE SubSeq(s, 1, indexOf(s, "-"))

AfterFirstToken(s) == slice(s, indexOf(s, "-") + 1)

HasCategoryCode(s) ==
    indexOf(s, "-") >= 0 /\ toLowerCase(FirstToken(s)) \in CategoryCodes

\* The clean name of a segment: the segment without a recognised prefix.
CleanNameOf(s) == IF HasCategoryCode(s) THEN AfterFirstToken(s) ELSE s

TakesUseException(s) ==
    startsWith(CleanNameOf(s), "use") /\ ~startsWith(CleanNameOf(s), "user")

\* C6: extractCategoryFromPath returns a category exactly when the segment
\* has more than one "-"-separated token and its lower-cased first token is
\* a category code; then category is that lower-cased token and first token
\* + "-" + cleanName is the segment; otherwise category is null and
\* cleanName is the segment unchanged.
C6_ExtractCategory ==
    pc = "extracted" =>
        /\ (extracted.category # Null) <=> HasCategoryCode(str)
        /\ HasCategoryCode(str) =>
              /\ extracted.category = toLowerCase(FirstToken(str))
              /\ extracted.cleanName = AfterFirstToken(str)
              /\ FirstToken(str) \o "-" \o extracted.cleanName = str
        /\ ~HasCategoryCode(str) =>
              /\ extracted.category = Null
              /\ extracted.cleanName = str

\* C6 witness: an upper-case prefix is recognised, a lone code is not.
C6_Witness ==
    /\ pc = "extracted"
    /\ str = "SQL-the-state"
    /\ extracted = [category |-> "sql", cleanName |-> "the-state"]

\* C7: for a segment whose clean name does not take the "use" exception,
\* formatting the formatted title again returns the same title.
C7_TitleIdempotent ==
    (pc = "retitled" /\ ~TakesUseException(str)) => retitled = titled

\* C7 witness: a title with a capitalised minor word in first position was
\* formatted twice.
C7_Witness ==
    /\ pc = "retitled"
    /\ str = "the-the-state"
    /\ titled = "The the State"
    /\ retitled = "The the State"

\* The title C8 describes for a clean name: first and last token
\* capitalised, a middle token that is a listed minor word in any letter
\* case lower-cased, any other token capitalised, joined by single spaces.
ListedTitleWord(word, index, n) ==
    IF index = 1 \/ index = n THEN capitalize(word)
    ELSE IF toLowerCase(word) \in ListedMinorWords THEN toLowerCase(word)
    ELSE capitalize(word)

ListedTitle(cleanName) ==
    LET words == split(cleanName, "-")
    IN  join([i \in 1..Len(words) |->
                 ListedTitleWord(words[i], i, Len(words))], " ")

\* C8 (as claimed): a clean name that takes no exception is formatted as
\* ListedTitle says, a middle minor word coming out in lower case whatever
\* its case in the input.
C8_MinorWordsLowerCased ==
    (pc = "titled" /\ ~TakesUseException(str) /\ CleanNameOf(str) # "jQuery")
        => titled = ListedTitle(CleanNameOf(str))

\* C9: a recognised prefix is stripped first; a clean name starting with
\* "use" but not "user" is returned unchanged; "jQuery" is returned
\* verbatim; a clean name starting with "user" is title-cased (first letter
\* upper-cased, hyphens replaced by spaces, same length).
C9_UseAndJQueryExceptions ==
    pc = "titled" =>
        /\ TakesUseException(str) => titled = CleanNameOf(str)
        /\ CleanNameOf(str) = "jQuery" => titled = "jQuery"
        /\ startsWith(CleanNameOf(str), "user") =>
              /\ startsWith(titled, "User")
              /\ ~includes(titled, "-")
              /\ Len(titled) = Len(CleanNameOf(str))

\* C9 witness: fund-use-state gives use-state.
C9_Witness ==
    /\ pc = "titled"
    /\ str = "fund-use-state"
    /\ titled = "use-state"

----------------------------------------------------------------------------
(* Properties of categorizeNavigationItems                                 *)

\* The items of all sections, concatenated in section order.
RECURSIVE AllSectionItems(_)
AllSectionItems(secs) ==
    IF Len(secs) = 0 THEN <<>>
    ELSE Head(secs).items \o AllSectionItems(Tail(secs))

\* How many elements of the sequence seq equal x.
Count(seq, x) == Cardinality({ i \in 1..Len(seq) : seq[i] = x })

Range(seq) == { seq[i] : i \in 1..Len(seq) }

SectionTitles == [i \in 1..Len(sections) |-> sections[i].title]

\* Item x is in the section titled t.
InSection(x, t) ==
    \E i \in 1..Len(sections) :
        sections[i].title = t /\ x \in Range(sections[i].items)

\* C1: the concatenation of the sections' item lists is a permutation of
\* the input: every item occurs in the sections as often as in the input,
\* and all occurrences of an item are in one section.
C1_SectionsPartitionInput ==
    pc = "categorized" =>
        LET all == AllSectionItems(sections)
        IN  /\ Len(all) = Len(input)
            /\ \A x \in Range(input) \cup Range(all) :
                    Count(all, x) = Count(input, x)
            /\ \A x \in Range(input) :
                    Cardinality({ i \in 1..Len(sections) :
                                    x \in Range(sections[i].items) }) = 1

\* C1 witness: two items were spread over two sections.
C1_Witness ==
    /\ pc = "categorized"
    /\ Len(input) = 2
    /\ Len(sections) = 2
    /\ InSection(input[1], "Projects")
    /\ InSection(input[2], "Databases")

\* The lower-cased non-empty "/"-separated segments of an href.
SegmentsOf(href) == nonEmptySegments(split(toLowerCase(href), "/"))

\* The codes that map to a section other than Databases.
OtherSectionCodes ==
    {"sql", "nosql", "fund", "proj", "adv", "sec", "perf", "dep", "util"}

CarriesOtherCode(seg) ==
    \E c \in OtherSectionCodes : startsWith(seg, c \o "-")

\* Some segment of the href has the form db-<rest>.
HasDbSegment(href) ==
    \E k \in 1..Len(SegmentsOf(href)) : startsWith(SegmentsOf(href)[k], "db-")

\* Some segment has the form db-<rest> and no segment before it carries a
\* code of another section.
HasLeadingDbSegment(href) ==
    \E k \in 1..Len(SegmentsOf(href)) :
        /\ startsWith(SegmentsOf(href)[k], "db-")
        /\ \A j \in 1..(k - 1) : ~CarriesOtherCode(SegmentsOf(href)[j])

\* C2 (as claimed): an item whose href has a db-<rest> segment at any
\* position is in the Databases section, whatever its other segments are.
C2_DbSegmentAnywhere ==
    pc = "categorized" =>
        \A i \in 1..Len(input) :
            HasDbSegment(input[i].href) => InSection(input[i], "Databases")

\* C2 (amended): an item whose href has a db-<rest> segment that no
\* segment carrying a code of another section precedes is in the Databases
\* section, whatever its title and children are.
C2_LeadingDbSegment ==
    pc = "categorized" =>
        \A i \in 1..Len(input) :
            HasLeadingDbSegment(input[i].href)
                => InSection(input[i], "Databases")

\* C2 witness: a db- segment in the middle of the href of an item with a
\* keyword title and children put the item in Databases.
C2_Witness ==
    /\ pc = "categorized"
    /\ Len(input) = 1
    /\ input[1].href = "/docs/DB-Admin/notes"
    /\ input[1].title = "MySQL Tools"
    /\ Len(input[1].children) > 0
    /\ SectionTitles = <<"Databases">>

\* seq is a subsequence of order: its elements occur in order, at strictly
\* increasing positions.
IsSubsequenceOf(seq, order) ==
    /\ \A i \in 1..Len(seq) : \E k \in 1..Len(order) : order[k] = seq[i]
    /\ \A i, j \in 1..Len(seq) :
           i < j => \E k, l \in 1..Len(order) :
                        k < l /\ order[k] = seq[i] /\ order[l] = seq[j]

ClaimedSectionOrder ==
    <<"Fundamentals", "Databases", "SQL", "NoSQL", "Projects",
      "Utilities & Tools", "Advanced Topics">>

EmittedSectionOrder ==
    <<"Fundamentals", "SQL", "NoSQL", "Databases", "Projects",
      "Utilities & Tools", "Advanced Topics">>

\* C3 (as claimed): the returned section titles are a subsequence of
\* Fundamentals, Databases, SQL, NoSQL, Projects, Utilities & Tools,
\* Advanced Topics.
C3_ClaimedOrder ==
    pc = "categorized" => IsSubsequenceOf(SectionTitles, ClaimedSectionOrder)

\* C3 (amended): the returned section titles are a subsequence of
\* Fundamentals, SQL, NoSQL, Databases, Projects, Utilities & Tools,
\* Advanced Topics, whatever the order and content of the input.
C3_EmittedOrder ==
    pc = "categorized" => IsSubsequenceOf(SectionTitles, EmittedSectionOrder)

\* C3 witness: a Databases item given before an SQL item; SQL comes first.
C3_Witness ==
    /\ pc = "categorized"
    /\ Len(input) = 2
    /\ input[1].href = "/db-storage"
    /\ input[2].href = "/sql-basics/db-design"
    /\ SectionTitles = <<"SQL", "Databases">>

SectionTitleOf ==
    [fundamentals |-> "Fundamentals", sql |-> "SQL", nosql |-> "NoSQL",
     databases |-> "Databases", projects |-> "Projects",
     utilities |-> "Utilities & Tools", advanced |-> "Advanced Topics"]

\* C4: no returned section is empty, a section is returned exactly when an
\* input item was assigned to its key, and no input gives no section.
C4_NoEmptySection ==
    pc = "categorized" =>
        /\ \A i \in 1..Len(sections) : Len(sections[i].items) > 0
        /\ \A k \in DOMAIN SectionTitleOf :
               (\E i \in 1..Len(input) : categorizeItem(input[i]) = k)
                   <=> (\E j \in 1..Len(sections) :
                            sections[j].title = SectionTitleOf[k])
        /\ Len(input) = 0 => sections = <<>>

\* C4, the empty input: it gave the empty section list.
C4_EmptyInputReached ==
    /\ pc = "categorized"
    /\ input = <<>>
    /\ sections = <<>>

\* C4 witness: one section for two items, the other six left out.
C4_Witness ==
    /\ pc = "categorized"
    /\ Len(input) = 2
    /\ Len(sections) = 1
    /\ Len(sections[1].items) = 2

\* The elements of seq that are members of S, in the order of seq.
RECURSIVE Restrict(_, _)
Restrict(seq, S) ==
    IF Len(seq) = 0 THEN <<>>
    ELSE (IF Head(seq) \in S THEN <<Head(seq)>> ELSE <<>>)
             \o Restrict(Tail(seq), S)

\* C5: every section lists its items in their input order, and the input
\* array, its items and their children are as they were before the call.
C5_OrderPreservedInputUntouched ==
    pc = "categorized" =>
        /\ items = input
        /\ \A i \in 1..Len(sections) :
               sections[i].items = Restrict(input, Range(sections[i].items))

\* C5 witness: two different items of one section, in input order.
C5_Witness ==
    /\ pc = "categorized"
    /\ Len(input) = 2
    /\ input[1] # input[2]
    /\ Len(sections) = 1
    /\ sections[1].items = input

----------------------------------------------------------------------------
(* Properties of sortNavigationItems                                       *)

TitleHas(item, keyword) == includes(toLowerCase(item.title), keyword)

\* The keywords getPriority looks for, in the order of its tests: those of
\* the priorities 1 to 4, which come before the default priority 99,
LeadingKeywords ==
    {"abbreviations", "vocabulary", "acronyms", "setting up", "set up",
     "selection", "starter", "fundamentals", "setup", "getting started",
     "project structure", "introduction", "foundation", "intro"}

\* those of priority 999,
LateKeywords == {"security", "performance"}

\* and those of priority 9999.
LastKeywords == {"bonus", "libraries", "optional", "frameworks"}

\* No keyword matches the title: the item has the default priority.
HasNoKeyword(item) ==
    \A k \in LeadingKeywords \cup LateKeywords \cup LastKeywords :
        ~TitleHas(item, k)

\* The title contains "bonus" and no keyword of a priority before the
\* default.
IsTrailingBonus(item) ==
    TitleHas(item, "bonus") /\ \A k \in LeadingKeywords : ~TitleHas(item, k)

\* C10 (as claimed): in the sorted array a title containing "vocabulary"
\* precedes a default-priority title, which precedes a title containing
\* "bonus", whatever other words the titles contain.
C10_VocabularyDefaultBonus ==
    pc = "sorted" =>
        \A i, j, k \in 1..Len(items) :
            (/\ TitleHas(items[i], "vocabulary")
             /\ HasNoKeyword(items[j])
             /\ TitleHas(items[k], "bonus")) => (i < j /\ j < k)

\* C10 (amended): the same, for a title that contains "bonus" and none of
\* the keywords of the priorities 1 to 4 (it may contain "security" or
\* "performance").
C10_VocabularyDefaultBonusOnly ==
    pc = "sorted" =>
        \A i, j, k \in 1..Len(items) :
            (/\ TitleHas(items[i], "vocabulary")
             /\ HasNoKeyword(items[j])
             /\ IsTrailingBonus(items[k])) => (i < j /\ j < k)

\* C10 witness: the three siblings given in the opposite order, the last of
\* them with "security" in its title besides "bonus".
C10_Witness ==
    /\ pc = "sorted"
    /\ Len(input) = 3
    /\ input[1].title = "Bonus Security"
    /\ input[2].title = "Caching"
    /\ input[3].title = "Vocabulary"
    /\ items = <<input[3], input[2], input[1]>>

\* C11: sorting the sorted array again returns the same sequence, and two
\* different siblings that compare equal keep their input order.
C11_SortIdempotentStable ==
    /\ pc = "resorted" => items = sortedOnce
    /\ pc \in {"sorted", "resorted"} =>
          \A a, b \in Range(input) :
              (a # b /\ compareItems(a, b) = 0)
                  => Restrict(items, {a, b}) = Restrict(input, {a, b})

\* C11 witness: two default-priority siblings given in reverse
\* alphabetical order after a bonus item; the sort moved the bonus item
\* only, and sorting again changed nothing.
C11_Witness ==
    /\ pc = "resorted"
    /\ Len(input) = 3
    /\ input[1].title = "Bonus Material"
    /\ input[2].title = "Routing"
    /\ input[3].title = "Caching"
    /\ items = <<input[2], input[3], input[1]>>
    /\ items = sortedOnce

HasOrder(item) == Len(item.order) > 0

\* C12 (as claimed): two default-priority siblings come out by ascending
\* order when both have one, the one with an order first when only one
\* has, and by title when neither has.
C12_DefaultBucketByOrder ==
    pc = "sorted" =>
        \A i, j \in 1..Len(items) :
            (i < j /\ HasNoKeyword(items[i]) /\ HasNoKeyword(items[j])) =>
                /\ (HasOrder(items[i]) /\ HasOrder(items[j]))
                      => ~less(items[j].order, items[i].order)
                /\ HasOrder(items[j]) => HasOrder(items[i])
                /\ (~HasOrder(items[i]) /\ ~HasOrder(items[j]))
                      => localeCompare(items[i].title, items[j].title) <= 0

\* The arrays that hold the elements of seq in some order.
PermutationsOf(seq) ==
    { [i \in 1..Len(seq) |-> seq[f[i]]] :
        f \in { g \in [1..Len(seq) -> 1..Len(seq)] :
                  \A i, j \in 1..Len(seq) : g[i] = g[j] => i = j } }

DistinctTitles(its) ==
    \A i, j \in 1..Len(its) : its[i].title = its[j].title => i = j

\* C28 (as claimed): siblings with pairwise distinct titles come out of
\* sortNavigationItems in the same sequence in whatever order they go in.
C28_OrderOfArrivalIrrelevant ==
    (pc = "sorted" /\ DistinctTitles(input)) =>
        \A other \in PermutationsOf(input) :
            sortNavigationItems(other) = items

----------------------------------------------------------------------------
(* Expansion projection                                                    *)

\* The hrefs of a node and of all its descendants.
RECURSIVE SubtreeHrefs(_)
SubtreeHrefs(item) ==
    {item.href} \cup
    UNION { SubtreeHrefs(item.children[i]) : i \in 1..Len(item.children) }

\* The nodes of an array of items, at every depth.
RECURSIVE NodesOf(_)
NodesOf(its) ==
    UNION { {its[i]} \cup NodesOf(its[i].children) : i \in 1..Len(its) }

AllNodes(secs) == UNION { NodesOf(secs[s].items) : s \in 1..Len(secs) }

\* The location made to start with "/".
Normalised(p) ==
    IF Len(p) > 0 /\ SubSeq(p, 1, 1) = "/" THEN p ELSE "/" \o p

\* href is the location, or the location continues href after a "/".
OnPath(p, href) ==
    \/ p = href
    \/ /\ Len(p) > Len(href)
       /\ SubSeq(p, 1, Len(href) + 1) = href \o "/"

\* The projection that was computed is of a location (not the shared
\* fallback handed back as it is).
Projected ==
    \/ pc = "expanded"
    \/ pc = "client" /\ isTruthy(currentPath)

\* C13: after setExpandedState every node of the result, at every depth, has
\* isExpanded = TRUE exactly when its own href or the href of one of its
\* descendants is the normalised location or a "/"-aligned prefix of it,
\* and FALSE otherwise.
C13_ExpandedIffOnPath ==
    Projected =>
        \A n \in AllNodes(expanded) :
            n.isExpanded =
                (\E h \in SubtreeHrefs(n) :
                    OnPath(Normalised(currentPath[1]), h))

\* C13 witness: for the location /a/b a node /a is expanded and childless
\* nodes /a/b/c and /ab are not.
C13_Witness ==
    /\ pc = "expanded"
    /\ currentPath = <<"/a/b">>
    /\ \E a, c, ab \in AllNodes(expanded) :
        /\ a.href = "/a" /\ a.isExpanded = TRUE
        /\ c.href = "/a/b/c" /\ c.children = <<>> /\ c.isExpanded = FALSE
        /\ ab.href = "/ab" /\ ab.children = <<>> /\ ab.isExpanded = FALSE

\* An item without its isExpanded flags, at every depth.
RECURSIVE StripItem(_)
StripItem(item) ==
    [title |-> item.title,
     href |-> item.href,
     order |-> item.order,
     children |-> [i \in 1..Len(item.children) |->
                      StripItem(item.children[i])]]

StripSections(secs) ==
    [s \in 1..Len(secs) |->
        [title |-> secs[s].title,
         items |-> [i \in 1..Len(secs[s].items) |->
                      StripItem(secs[s].items[i])]]]

\* C14: setExpandedState, called directly or through
\* getClientSideNavigation, leaves its argument and the shared fallbackNav
\* as they were (isExpanded flags included), and its result is the argument
\* with the same sections and the same nodes in the same order, with the
\* same title, href and order, differing at most in isExpanded.
C14_CopyNotMutation ==
    [][ /\ sections' = sections
        /\ fallbackNav' = fallbackNav
        /\ pc' = "expanded" =>
              StripSections(expanded') = StripSections(sections)
        /\ (pc' = "client" /\ isTruthy(currentPath')) =>
              StripSections(expanded') = StripSections(fallbackNav)
      ]_vars

\* C14 witness: getClientSideNavigation("/a") on a fallback whose /ab item
\* was flagged expanded and whose /a item was not: the result has the flags
\* the other way round, the fallback still has its own.
C14_Witness ==
    /\ pc = "client"
    /\ currentPath = <<"/a">>
    /\ Len(fallbackNav) = 2
    /\ fallbackNav[1].items[1].isExpanded = TRUE
    /\ fallbackNav[2].items[1].isExpanded = FALSE
    /\ expanded[1].items[1].isExpanded = FALSE
    /\ expanded[2].items[1].isExpanded = TRUE
    /\ expanded[2].items[1].order = <<2>>

----------------------------------------------------------------------------
(* Directory scan and build                                                *)

\* A build that scanned the content tree has returned.
Scanned == pc = "built" /\ ~hasWindow /\ ~fs.cwdGone

\* The entry is passed over by name.
SkippedName(name) ==
    \/ SubSeq(name, 1, 1) = "."
    \/ name \in {"globals.css", "favicon.ico", "layout.tsx"}

\* The directory directly contains a page file (one that is there, not
\* a name with nothing behind it).
HasPageFile(dir) ==
    \E e \in Range(dir.entries) :
        e.name \in {"page.tsx", "page.mdx", "page.js"} /\ e.reachable

\* The non-skipped directories below dir that the scan can reach.
SubDirs(dir) ==
    IF dir.fails THEN {}
    ELSE { e \in Range(dir.entries) : e.isDirectory /\ ~SkippedName(e.name) }

\* <<route of the parent directory, route>> of every reachable non-skipped
\* directory below dir (whose route is base) that has a page file.
RECURSIVE PageDirs(_, _)
PageDirs(dir, base) ==
    UNION { (IF HasPageFile(e) THEN {<<base, base \o "/" \o e.name>>} ELSE {})
                \cup PageDirs(e, base \o "/" \o e.name) : e \in SubDirs(dir) }

\* The routes of the files the scan can reach below dir.
RECURSIVE FileRoutes(_, _)
FileRoutes(dir, base) ==
    IF dir.fails THEN {}
    ELSE { base \o "/" \o e.name :
               e \in { x \in Range(dir.entries) : ~x.isDirectory } }
         \cup UNION { FileRoutes(e, base \o "/" \o e.name) : e \in SubDirs(dir) }

\* <<href of the parent node, href>> of every node below its, in sequence.
RECURSIVE PairsOf(_, _)
PairsOf(its, parentHref) ==
    flatten([i \in 1..Len(its) |->
                <<<<parentHref, its[i].href>>>>
                    \o PairsOf(its[i].children, its[i].href)])

NavPairs(secs) ==
    flatten([s \in 1..Len(secs) |-> PairsOf(secs[s].items, "")])

ExampleTree ==
    Site(Dir("app",
        << Dir("fund-intro", <<File("page.tsx", PagePlain)>>, FALSE),
           Dir("db-storage",
               <<File("page.tsx", PagePlain),
                 Dir("sub-topic", <<File("page.tsx", PagePlain)>>, FALSE)>>,
               FALSE) >>,
        FALSE), FALSE)

\* C15: after a build that scanned the tree, every reachable non-skipped
\* directory with a page file has exactly one node in the returned
\* sections, with the accumulated route path as href, nested under the node
\* of its parent directory (at the top of a section for a directory of
\* src/app); no file has a node; and the tree fund-intro, db-storage,
\* db-storage/sub-topic gives Fundamentals [/fund-intro] and Databases
\* [/db-storage [/db-storage/sub-topic]].
C15_PageDirectoriesBecomeNodes ==
    Scanned =>
        LET pairs == NavPairs(nav)
        IN  /\ \A d \in PageDirs(fs, "") :
                  /\ Cardinality({ i \in 1..Len(pairs) : pairs[i][2] = d[2] }) = 1
                  /\ \E i \in 1..Len(pairs) : pairs[i] = d
            /\ \A i \in 1..Len(pairs) : pairs[i][2] \notin FileRoutes(fs, "")
            /\ fs = ExampleTree =>
                  /\ Len(nav) = 2
                  /\ nav[1].title = "Fundamentals"
                  /\ NavPairs(<<nav[1]>>) = << <<"", "/fund-intro">> >>
                  /\ nav[2].title = "Databases"
                  /\ NavPairs(<<nav[2]>>) =
                         << <<"", "/db-storage">>,
                            <<"/db-storage", "/db-storage/sub-topic">> >>

\* The href the node of a directory carries, given its route path.
RouteHref(route) == IF route = "/page" THEN "/" ELSE route

\* The directories of dir (route base) the node n can stand for.
DirsOfNode(n, dir, base) ==
    { e \in SubDirs(dir) : RouteHref(base \o "/" \o e.name) = n.href }

\* Every node of its, at every depth, stands for a directory below dir that
\* has a page file or else has children.
RECURSIVE PageOrChildren(_, _, _)
PageOrChildren(its, dir, base) ==
    \A i \in 1..Len(its) :
        \E e \in DirsOfNode(its[i], dir, base) :
            /\ HasPageFile(e) \/ Len(its[i].children) > 0
            /\ PageOrChildren(its[i].children, e, base \o "/" \o e.name)

\* The entry gives a node: a non-skipped directory with a page file, or one
\* that can be listed and has an entry below it that gives a node.
RECURSIVE YieldsNode(_)
YieldsNode(e) ==
    /\ e.isDirectory
    /\ ~SkippedName(e.name)
    /\ \/ HasPageFile(e)
       \/ ~e.fails /\ \E c \in Range(e.entries) : YieldsNode(c)

\* No directory below dir that has no page file and nothing below it that
\* gives a node has a node in its, at any depth.
RECURSIVE EmptyGroupsDropped(_, _, _)
EmptyGroupsDropped(its, dir, base) ==
    \A e \in SubDirs(dir) :
        LET route == base \o "/" \o e.name
            ns == { i \in 1..Len(its) : its[i].href = RouteHref(route) }
        IN  /\ ~YieldsNode(e) => ns = {}
            /\ \A i \in ns : EmptyGroupsDropped(its[i].children, e, route)

\* C16: in the tree scanDirectory returned, a directory without a page file
\* has a node only when something below it has one, every node stands for a
\* directory with a page file or has children, and so every childless node
\* stands for a directory with a page file.
C16_GroupsOnlyWithChildren ==
    Scanned =>
        /\ PageOrChildren(items, fs, "")
        /\ EmptyGroupsDropped(items, fs, "")

\* C16 witness: the page-less guides kept for its child setup, next to the
\* page-less drafts, which has nothing to show and is dropped.
C16_Witness ==
    /\ Scanned
    /\ Len(fs.entries) = 2
    /\ {fs.entries[1].name, fs.entries[2].name} = {"guides", "drafts"}
    /\ Len(items) = 1
    /\ items[1].href = "/guides"
    /\ Len(items[1].children) = 1
    /\ items[1].children[1].href = "/guides/setup"
    /\ items[1].children[1].children = <<>>

\* The tree without the entries that are passed over by name.
RECURSIVE WithoutSkipped(_)
WithoutSkipped(dir) ==
    LET kept == SelectSeq(dir.entries, LAMBDA e : ~SkippedName(e.name))
    IN  [dir EXCEPT !.entries =
            [i \in 1..Len(kept) |->
                IF kept[i].isDirectory THEN WithoutSkipped(kept[i])
                ELSE kept[i]]]

\* The hrefs of the nodes of its, at every depth.
RECURSIVE HrefsOf(_)
HrefsOf(its) ==
    UNION { {its[i].href} \cup HrefsOf(its[i].children) : i \in 1..Len(its) }

\* C17: no node, at any depth, has a route segment that starts with "." or
\* is globals.css, favicon.ico or layout.tsx, and the scan gives the same
\* tree as the scan of the content tree without such entries.
C17_SkippedEntriesInvisible ==
    Scanned =>
        /\ \A h \in HrefsOf(items) :
              \A seg \in Range(split(h, "/")) :
                  seg = "" \/ ~SkippedName(seg)
        /\ items = scanDirectory(WithoutSkipped(fs), appDir, "").items

\* C17 witness: api-docs, which holds a layout file and the directories
\* .cache and favicon.ico with pages below them, next to the top-level
\* directory layout.tsx with a page: one childless node.
C17_Witness ==
    /\ Scanned
    /\ Len(fs.entries) = 2
    /\ {fs.entries[1].name, fs.entries[2].name} = {"api-docs", "layout.tsx"}
    /\ Len(items) = 1
    /\ items[1].href = "/api-docs"
    /\ items[1].children = <<>>

\* The tree with every directory that cannot be listed made listable and
\* holding its files only.
RECURSIVE Healed(_)
Healed(dir) ==
    LET kept == IF dir.fails
                    THEN SelectSeq(dir.entries, LAMBDA e : ~e.isDirectory)
                    ELSE dir.entries
    IN  [dir EXCEPT !.fails = FALSE,
                    !.entries =
                        [i \in 1..Len(kept) |->
                            IF kept[i].isDirectory THEN Healed(kept[i])
                            ELSE kept[i]]]

\* The tree with every directory listable.
RECURSIVE Listable(_)
Listable(dir) ==
    [dir EXCEPT !.fails = FALSE,
                !.entries =
                    [i \in 1..Len(dir.entries) |->
                        IF dir.entries[i].isDirectory
                            THEN Listable(dir.entries[i])
                            ELSE dir.entries[i]]]

\* The paths of the directories the scan of dir (at path) reaches and cannot
\* list.
RECURSIVE FailingDirs(_, _)
FailingDirs(dir, path) ==
    IF dir.fails THEN {path}
    ELSE UNION { FailingDirs(e, path \o "/" \o e.name) : e \in SubDirs(dir) }

\* C18: the scan logs every directory it cannot list and gives the tree it
\* would give if each of them were listable and held no directories; a
\* top-level directory with no failure below it has the node it has when
\* nothing fails; and the build returns that tree categorised.
C18_ListingFailureContained ==
    Scanned =>
        /\ errorLog = FailingDirs(fs, appDir)
        /\ items = scanDirectory(Healed(fs), appDir, "").items
        /\ \A e \in SubDirs(fs) :
              (e = Listable(e) /\ YieldsNode(e)) =>
                  \E i \in 1..Len(items) :
                      /\ items[i].href = RouteHref("/" \o e.name)
                      /\ items[i] \in
                            Range(scanDirectory(Listable(fs), appDir, "").items)
        /\ nav = categorizeNavigationItems(
                     scanDirectory(Healed(fs), appDir, "").items)

\* C18 witness: adv-topics/locked cannot be listed: it is logged, its node
\* has no children, and its sibling open and the top-level fund-intro have
\* their nodes.
C18_Witness ==
    /\ Scanned
    /\ errorLog = {"/site/src/app/adv-topics/locked"}
    /\ {"/adv-topics", "/adv-topics/locked", "/adv-topics/open", "/fund-intro"}
           \subseteq HrefsOf(items)
    /\ Len(nav) > 0

\* What the front matter of a page file of the content trees holds.
FrontMatterOf(text) ==
    IF text = PageCustom THEN Metadata(<<"Custom Name">>, <<2>>)
    ELSE IF text = PageTitleOnly THEN Metadata(<<"Overview">>, <<>>)
    ELSE IF text = PageOrderOnly THEN Metadata(<<>>, <<3>>)
    ELSE IF text = PageLargeOrder
        THEN Metadata(<<"Home">>, <<9007199, 254740993>>)
    ELSE Metadata(<<>>, <<>>)

\* The first page file of a directory, in the order page.tsx, page.mdx,
\* page.js.
FirstPageFile(dir) ==
    LET named(f) == { e \in Range(dir.entries) : e.name = f /\ e.reachable }
    IN  IF named("page.tsx") # {} THEN CHOOSE e \in named("page.tsx") : TRUE
        ELSE IF named("page.mdx") # {} THEN CHOOSE e \in named("page.mdx") : TRUE
        ELSE CHOOSE e \in named("page.js") : TRUE

\* Every node of its, at every depth, that stands for a directory with a
\* page file has the title and order of that directory's first page file.
RECURSIVE TitledFromFirstPage(_, _, _)
TitledFromFirstPage(its, dir, base) ==
    \A i \in 1..Len(its) :
        \A e \in DirsOfNode(its[i], dir, base) :
            /\ HasPageFile(e) =>
                  LET fm == FrontMatterOf(FirstPageFile(e).text)
                  IN  /\ its[i].title =
                            IF Len(fm.title) > 0 THEN fm.title[1]
                            ELSE toSmartTitleCase(e.name)
                      /\ its[i].order = fm.order
            /\ TitledFromFirstPage(its[i].children, e, base \o "/" \o e.name)

\* C19 (as claimed): the node of a directory with a page file has the
\* front-matter title
\* of the first page file found (page.tsx, page.mdx, page.js) when it has
\* one, else toSmartTitleCase of the directory name, and the front-matter
\* order when it has one, else none; a page with title "Custom Name" and
\* order 2 gives a node titled "Custom Name" with order 2.
C19_TitleAndOrderFromFirstPage ==
    Scanned => TitledFromFirstPage(items, fs, "")

\* C20: where window is defined every call of buildNavigationFromFileSystem
\* returns fallbackNav and makes no file-system call (no listing, no
\* existence check, no read), and nothing is logged.
C20_WindowShortCircuit ==
    (hasWindow = TRUE) =>
        /\ pc = "built" => nav = fallbackNav
        /\ \A i \in 1..Len(fsOps) : fsOps[i] = {}
        /\ errorLog = {}

\* C20 witness: two calls with window defined over a tree with page
\* directories.
C20_Witness ==
    /\ pc = "built"
    /\ hasWindow = TRUE
    /\ Len(fsOps) = 2
    /\ fsOps[2] = {}
    /\ nav = fallbackNav
    /\ PageDirs(fs, "") # {}

----------------------------------------------------------------------------
(* Fallback, metadata reading and concurrent builds                        *)

\* C21: a build without window whose scan fails, the working directory
\* being gone or src/app not being listable, returns fallbackNav (and so
\* not an empty section list).
C21_FallbackWhenScanFails ==
    (pc = "built" /\ hasWindow = FALSE /\ (fs.cwdGone \/ fs.fails)) =>
        nav = fallbackNav

\* The quoted title a line of the files gives, <<>> when it gives none.
LineTitle(line) ==
    IF line = "title: \"A b\"" THEN <<"A b">>
    ELSE IF line = "title: 'C'" THEN <<"C">>
    ELSE IF line = "subtitle: \"S\"" THEN <<"S">>
    ELSE <<>>

\* The order a line of the files gives, <<>> when it gives none: the
\* integer written, or the double nearest to it when it is no double.
LineOrder(line) ==
    IF line = "order: 2" THEN <<2>>
    ELSE IF line = "order:10" THEN <<10>>
    ELSE IF line = "order:7" THEN <<7>>
    ELSE IF line = "order: 9007199254740993" THEN <<9007199, 254740992>>
    ELSE <<>>

\* The first non-empty value of a sequence of optional values, <<>> when
\* there is none.
RECURSIVE FirstPresent(_)
FirstPresent(vals) ==
    IF Len(vals) = 0 THEN <<>>
    ELSE IF Len(Head(vals)) > 0 THEN Head(vals)
    ELSE FirstPresent(Tail(vals))

\* The file starts with a front-matter block: a line of three hyphens, the
\* lines, and a closing line of three hyphens.
LeadingBlock(file) ==
    /\ file.opening \in {"---\n", "--- \n\n"}
    /\ file.closing = "\n---\n"

\* A non-negative integer in base 10^9 without leading zeros, or Infinity.
IsNumber(n) ==
    \/ n = Infinity
    \/ /\ Len(n) >= 1
       /\ \A i \in 1..Len(n) : n[i] \in 0..(Limb - 1)
       /\ Len(n) > 1 => n[1] > 0

\* C22: readMDXMetadata returns an object in every case; the object is
\* empty when window is defined and when the file cannot be read; for a
\* readable file it holds title exactly when a quoted title is matched in a
\* leading front-matter block, order exactly when an integer order is
\* matched there, and nothing in place of a field that was not matched.
C22_MetadataFailsSoft ==
    pc = "read" =>
        /\ Len(parsed.title) <= 1
        /\ parsed.order = <<>> \/ IsNumber(parsed.order)
        /\ (hasWindow \/ ~input.readable) => parsed = Metadata(<<>>, <<>>)
        /\ (~hasWindow /\ input.readable /\ ~LeadingBlock(input)) =>
              parsed = Metadata(<<>>, <<>>)
        /\ (~hasWindow /\ input.readable /\ LeadingBlock(input)) =>
              parsed =
                  Metadata(
                      FirstPresent([i \in 1..Len(input.lines) |->
                                       LineTitle(input.lines[i])]),
                      FirstPresent([i \in 1..Len(input.lines) |->
                                       LineOrder(input.lines[i])]))

\* C22 witness: a readable file whose block holds a quoted title after an
\* order line that is no integer: title is set, order is absent.
C22_Witness ==
    /\ pc = "read"
    /\ hasWindow = FALSE
    /\ fileText = <<"---\norder: x\ntitle: \"A b\"\n---\n">>
    /\ parsed = Metadata(<<"A b">>, <<>>)

\* The addresses of the array at a and of every array below it.
RECURSIVE arraysBelow(_, _)
arraysBelow(h, a) ==
    {a} \cup
    UNION { arraysBelow(h, h[a][i].children[1]) :
                i \in { j \in 1..Len(h[a]) : Len(h[a][j].children) > 0 } }

\* The arrays the build b holds: the local arrays of its scanDirectory
\* calls, the arrays returned and not yet taken up, the array its sections
\* were made of, and every array below one of these.
ArraysOfBuild(h, b) ==
    UNION { arraysBelow(h, a) :
                a \in { b.stack[i].items : i \in 1..Len(b.stack) }
                      \cup UNION { Range(b.stack[i].value) :
                                       i \in 1..Len(b.stack) }
                      \cup Range(b.navigationItems) }

\* C23: with any number of builds under way and interleaved at their
\* awaits, every build that has returned has returned the sections, made
\* the file-system calls and logged the errors of a build that runs alone
\* over the same tree, and the tree its sections were made of is still the
\* one such a build gets; and a step of one build leaves every other build
\* and every array another build holds as they were.
C23_BuildsShareNothing ==
    /\ []((\E c \in DOMAIN builds : builds[c].pc = "done") =>
            \E alone \in {buildNavigationFromFileSystem(hasWindow, fs,
                                                        fallbackNav)} :
                \A c \in DOMAIN builds :
                    builds[c].pc = "done" =>
                        /\ builds[c].returned = alone.nav
                        /\ builds[c].errors = alone.errors
                        /\ fsOps[c] = alone.ops
                        /\ \A a \in Range(builds[c].navigationItems) :
                               itemsAt(heap, a) = alone.scanned)
    /\ [][\A c, d \in DOMAIN builds :
            (c # d /\ builds'[c] # builds[c]) =>
                /\ builds'[d] = builds[d]
                /\ \A a \in ArraysOfBuild(heap, builds[d]) :
                       heap'[a] = heap[a]]_vars

\* C23 witness: one build has returned two sections while another, started
\* over the same tree, is two scanDirectory calls deep with an item
\* collected in the array of the outer one.
C23_Witness ==
    /\ hasWindow = FALSE
    /\ \E c, d \in DOMAIN builds :
        /\ builds[c].pc = "done"
        /\ Len(builds[c].returned) = 2
        /\ builds[d].pc = "scanning"
        /\ Len(builds[d].stack) = 2
        /\ Len(heap[builds[d].stack[1].items]) = 1

\* The sibling lists of a tree: the list itself and, at every depth, the
\* children of each of its items.
RECURSIVE SiblingLists(_)
SiblingLists(its) ==
    {its} \cup UNION { SiblingLists(its[i].children) : i \in 1..Len(its) }

\* No item of the list belongs before an item in front of it.
InOrder(its) ==
    \A i, j \in 1..Len(its) : i < j => compareItems(its[i], its[j]) <= 0

\* C24: in the tree scanDirectory returns for src/app, every list of
\* siblings at every depth is in the order of sortNavigationItems: sorting
\* it again returns it unchanged.
C24_ReturnedTreeSorted ==
    Scanned =>
        \A l \in SiblingLists(items) :
            InOrder(l) /\ sortNavigationItems(l) = l

\* C24 witness: db-tools is listed before fund-intro and its setup before
\* its api-vocabulary; both lists come back in the other order.
C24_Witness ==
    /\ Scanned
    /\ Len(fs.entries) = 2
    /\ fs.entries[1].name = "db-tools"
    /\ fs.entries[2].name = "fund-intro"
    /\ Len(items) = 2
    /\ items[1].href = "/fund-intro"
    /\ items[2].href = "/db-tools"
    /\ Len(items[2].children) = 2
    /\ items[2].children[1].href = "/db-tools/api-vocabulary"
    /\ items[2].children[2].href = "/db-tools/setup"

\* The section that takes the items of a category code.
CodeSection(code) ==
    CASE code = "sql" -> "SQL"
      [] code = "nosql" -> "NoSQL"
      [] code \in {"db", "api"} -> "Databases"
      [] code = "fund" -> "Fundamentals"
      [] code = "proj" -> "Projects"
      [] code = "util" -> "Utilities & Tools"
      [] code \in {"adv", "sec", "perf", "dep"} -> "Advanced Topics"

\* The entry of src/app is a directory without a page file that is kept
\* for what is below it.
KeptGroup(e) ==
    e.isDirectory /\ ~SkippedName(e.name) /\ ~HasPageFile(e) /\ YieldsNode(e)

\* the places of the returned sections where an item has this href
PlacesOf(secs, href) ==
    { <<s, k>> \in (1..Len(secs)) \X (1..MaxTop + 1) :
        k <= Len(secs[s].items) /\ secs[s].items[k].href = href }

\* C27: a directory of src/app without a page file that is kept as a group
\* has an item whose href is its route, never "#"; when its name carries a
\* category code the item is in the section of that code, whatever its
\* title says.
C27_GroupKeepsRoute ==
    Scanned =>
        \A i \in 1..Len(fs.entries) :
            KeptGroup(fs.entries[i]) =>
                LET name == fs.entries[i].name
                    code == extractCategoryFromPath(toLowerCase(name)).category
                    places == PlacesOf(nav, "/" \o name)
                IN  /\ places # {}
                    /\ PlacesOf(nav, "#") = {}
                    /\ code # Null =>
                         \A p \in places : nav[p[1]].title = CodeSection(code)

\* C27 witness: fund-sql-security has no page file and one page directory;
\* its item, titled Sql Security, is in Fundamentals, the section of its
\* code, where its title alone would have placed it in SQL.
C27_Witness ==
    /\ Scanned
    /\ Len(fs.entries) = 1
    /\ fs.entries[1].name = "fund-sql-security"
    /\ categoryOfSubtree("", toLowerCase("Sql Security")) = "sql"
    /\ Len(nav) = 1
    /\ nav[1].title = "Fundamentals"
    /\ Len(nav[1].items) = 1
    /\ nav[1].items[1].href = "/fund-sql-security"
    /\ nav[1].items[1].title = "Sql Security"
    /\ Len(nav[1].items[1].children) = 1

----------------------------------------------------------------------------
(* The keyword rules of categorizeItem                                     *)

\* One item has been categorised.
Filed == pc = "categorized" /\ Len(items) = 1

\* No segment of the item's lower-cased href carries a category code.
NoCode(item) ==
    \A seg \in Range(split(toLowerCase(item.href), "/")) :
        extractCategoryFromPath(seg).category = Null

\* The item's lower-cased href or title contains one of the words.
Mentions(item, words) ==
    \/ includesAny(toLowerCase(item.href), words)
    \/ includesAny(toLowerCase(item.title), words)

\* The title of the one section returned, "" when there is not exactly one.
FiledUnder ==
    IF Len(sections) = 1 /\ sections[1].items = items THEN sections[1].title
    ELSE ""

\* C25: an item with children that carries no category code and matches
\* none of the rules for items with children is filed under Fundamentals,
\* whatever the rules for single pages would say of it.
C25_PageRulesOnlyForLeaves ==
    (/\ Filed
     /\ Len(items[1].children) > 0
     /\ NoCode(items[1])
     /\ categoryOfSubtree(toLowerCase(items[1].href),
                          toLowerCase(items[1].title)) = Null)
        => FiledUnder = "Fundamentals"

\* The words the rules look for in the href.
PathKeywords ==
    {"docker", "kubernetes", "deployment-strategies", "mysql", "postgresql",
     "sqlite", "sql", "mongodb", "redis", "nosql", "cassandra", "dynamodb",
     "database", "environment-setup", "managers", "version",
     "transaction-models", "data", "graphql", "package-managers",
     "version-control", "foundation", "setup", "back-end", "vocabulary",
     "abbreviations", "advanced", "principles",
     "quality-security-performance", "seo-accessibility",
     "introduction-to-html", "introduction-to-javascript",
     "document-object-model", "forms", "jquery",
     "documentation-and-learning-platforms", "utilities-tools",
     "resources-utilities", "helper-functions", "development-tools",
     "utility-libraries"}

\* The words the rules look for in the title.
TitleKeywords ==
    {"docker", "kubernetes", "deployment", "mysql", "postgresql", "sqlite",
     "sql", "mongodb", "redis", "nosql", "cassandra", "dynamodb", "database",
     "databases", "managers", "environment", "version", "transaction", "data",
     "graphql", "principles", "advanced", "security", "html", "css",
     "javascript", "seo", "dom", "forms", "jquery", "documentation",
     "learning platforms", "utilities", "utility", "helper", "tools",
     "platforms"}

\* Neither the href nor the title contains a word a rule looks for in it.
NoKeyword(item) ==
    /\ ~includesAny(toLowerCase(item.href), PathKeywords)
    /\ ~includesAny(toLowerCase(item.title), TitleKeywords)

SevenSections ==
    {"Fundamentals", "SQL", "NoSQL", "Databases", "Projects",
     "Utilities & Tools", "Advanced Topics"}

\* C26: an item is always filed under exactly one of the seven sections,
\* and an item without a category code whose href and title contain none of
\* the rules' words is filed under Fundamentals, with or without children.
C26_DefaultIsFundamentals ==
    Filed =>
        /\ FiledUnder \in SevenSections
        /\ (NoCode(items[1]) /\ NoKeyword(items[1]))
              => FiledUnder = "Fundamentals"

\* C26 witness: Overview at /guides/tools, with a child, is filed under
\* Fundamentals ("tools" is looked for in the title only).
C26_Witness ==
    /\ Filed
    /\ items[1].title = "Overview"
    /\ items[1].href = "/guides/tools"
    /\ Len(items[1].children) > 0
    /\ NoCode(items[1])
    /\ NoKeyword(items[1])
    /\ FiledUnder = "Fundamentals"

NoSqlStores == {"mongodb", "redis", "cassandra", "dynamodb"}

\* C29: an item without a category code that mentions "nosql" is never
\* filed under NoSQL: it is filed under SQL, unless it has children and the
\* first rule for such items files it under Advanced Topics, or has none
\* and the first rule for pages files it under Fundamentals.  An item
\* without a code that is filed under NoSQL mentions one of the four stores
\* and "sql" nowhere.
C29_NoSqlShadowedBySql ==
    (Filed /\ NoCode(items[1])) =>
        /\ Mentions(items[1], {"nosql"}) =>
              \/ FiledUnder = "SQL"
              \/ /\ FiledUnder = "Advanced Topics"
                 /\ Len(items[1].children) > 0
              \/ /\ FiledUnder = "Fundamentals"
                 /\ Len(items[1].children) = 0
        /\ FiledUnder = "NoSQL" =>
              /\ Mentions(items[1], NoSqlStores)
              /\ ~Mentions(items[1], {"sql"})

\* C29 witness: NoSQL Basics at /overview, with a child, is filed under
\* SQL.
C29_Witness ==
    /\ Filed
    /\ items[1].title = "NoSQL Basics"
    /\ items[1].href = "/overview"
    /\ Len(items[1].children) > 0
    /\ FiledUnder = "SQL"

\* C30: projecting sections first for one location and the result for a
\* second gives what projecting the sections for the second alone gives,
\* and a location gives what the same location made to start with "/"
\* gives.
C30_ProjectionForgetsEarlierLocation ==
    /\ pc = "reexpanded" =>
          /\ expanded = setExpandedState(sections, currentPath[2])
          /\ expanded = setExpandedState(sections, Normalised(currentPath[2]))
    /\ pc = "expanded" =>
          expanded = setExpandedState(sections, Normalised(currentPath[1]))

\* C30 witness: sections projected for /ab and then for a/b (no leading
\* "/"): the item /ab, expanded by the first projection, is collapsed and
\* /a is expanded.
C30_Witness ==
    /\ pc = "reexpanded"
    /\ currentPath = <<"/ab", "a/b">>
    /\ \E n \in AllNodes(setExpandedState(sections, "/ab")) :
          n.href = "/ab" /\ n.isExpanded
    /\ \E n \in AllNodes(expanded) : n.href = "/ab" /\ ~n.isExpanded
    /\ \E n \in AllNodes(expanded) : n.href = "/a" /\ n.isExpanded

====
